---- MODULE Spec2Model ----
(***************************************************************************)
(* Enrichment task queue of rag-stack (raged): the Postgres-backed,        *)
(* lease-based work queue and the worker-facing claim / result / fail /    *)
(* recover-stale protocol, together with the on-demand enqueue of          *)
(* api/src/services/enrichment.ts.  Further sections model the paged      *)
(* enqueue and the queue clear of the same file, the filter compiler of    *)
(* pg-helpers.ts and the URL fetcher of url-fetch.ts, each with its own    *)
(* initial state and next-state relation.                                  *)
(*                                                                         *)
(* Time is counted in seconds.  A task id is the position of its row in    *)
(* the task_queue table (rows are never reordered).                        *)
(***************************************************************************)
EXTENDS Integers, Sequences, FiniteSets, TLC

\* ------------------------------------------------------------------ bounds
MaxTime == 120
TickSeconds == 60
MaxTasks == 2
MaxClaims == 3
ShortLease == 30

\* ------------------------------------------------------- program constants
RETRY_DELAY_SECONDS == 60
DEFAULT_MAX_ATTEMPTS == 3
SUBMIT_STEPS == 4

NULL == -1
NoWorker == "null"
NoTask == 0

Workers == {"w1", "w2"}
LeaseDurations == {ShortLease}
ErrorMessages == {"Test error", "Final attempt failed"}

\* the chunks of the collection: (document, chunk_index)
Documents == {"d1"}
Chunks == {<<"d1", 0>>, <<"d1", 1>>}
DocOf(c) == c[1]

EmptyMeta == [k \in {} |-> ""]

NoError == [message |-> "null", taskId |-> NoTask, attempt |-> 0,
            maxAttempts |-> 0, final |-> FALSE, chunkIndex |-> NULL]

\* the result a worker submits for a chunk: tier-3 metadata holding a
\* document-level summary next to a key that stays on the chunk
ResultTier3 == [summary_medium |-> "S", otherField |-> "keep this"]
ResultEntities == {"Entity1"}
SUMMARY_KEYS == {"summary", "summary_short", "summary_medium", "summary_long"}
STRIPPED_KEYS == SUMMARY_KEYS \cup {"_error"}

VARIABLES
  now,       \* the database clock
  tasks,     \* task_queue: sequence of rows, id = index
  chunks,    \* chunks: [Chunks -> row]
  docs,      \* documents: [Documents -> row]
  entities,  \* entity names stored
  claiming,  \* per worker: the claim statement in flight (row lock held)
  held,      \* per worker: the tasks it was handed and has not reported on
  nclaims,   \* the number of claims that found a task so far
  enq,       \* the enqueue invocation in progress: its locals
  cleared,   \* the reply of the last clear request
  flt,       \* the filter handed to translateFilter and what it returned
  fetch,     \* the URL fetch in progress: its context, timer and outcome
  urlBatch,  \* the fetchUrls call in progress: its workers, results, errors
  embedCall, \* the embed call in progress: its requests and results
  ingest,    \* the documents table as the ingestion service keeps it
  ingestReq, \* the ingest request being served and its reply
  qry,       \* the query request being served and its reply
  textFilter,
             \* a stats, enqueue or clear call with a text filter
  flush,     \* the ingestion client flushing a batch: its pending requests
  urlCheck   \* the checkUrls call in progress: its queue and results

vars == <<now, tasks, chunks, docs, entities, claiming, held, nclaims,
          enq, cleared, flt, fetch, urlBatch, embedCall, ingest,
          ingestReq, qry, textFilter, flush, urlCheck>>

\* the state outside the task queue and its worker protocol
others == <<enq, cleared, flt, fetch, urlBatch, embedCall, ingest,
           ingestReq, qry, textFilter, flush, urlCheck>>

NoEnqueue == [pc |-> "idle"]
NoClear == [pc |-> "idle"]
NoFilter == [pc |-> "idle"]
NoFetch == [pc |-> "idle"]
NoBatch == [pc |-> "idle"]
NoEmbed == [pc |-> "idle"]
NoIngest == [pc |-> "idle"]
NoRequest == [pc |-> "idle"]
NoQuery == [pc |-> "idle"]
NoTextFilter == [pc |-> "idle"]
NoFlush == [pc |-> "idle"]
NoCheck == [pc |-> "idle"]
ClientsIdle ==
  /\ ingestReq = NoRequest
  /\ qry = NoQuery
  /\ textFilter = NoTextFilter
  /\ flush = NoFlush
  /\ urlCheck = NoCheck
OthersIdle ==
  /\ enq = NoEnqueue
  /\ cleared = NoClear
  /\ flt = NoFilter
  /\ fetch = NoFetch
  /\ urlBatch = NoBatch
  /\ embedCall = NoEmbed
  /\ ingest = NoIngest
  /\ ClientsIdle

TaskIds == 1..Len(tasks)
NoClaim == [t |-> NoTask, lease |-> 0, at |-> NULL]

Init ==
  /\ now = 0
  /\ tasks = <<>>
  /\ chunks = [c \in Chunks |->
       [enrichment_status |-> "none", tier3_meta |-> EmptyMeta,
        tier3_error |-> NoError]]
  /\ docs = [d \in Documents |-> [summary_medium |-> "null"]]
  /\ entities = {}
  /\ claiming = [w \in Workers |-> NoClaim]
  /\ held = [w \in Workers |-> {}]
  /\ nclaims = 0
  /\ OthersIdle

\* time passes
Tick ==
  /\ now + TickSeconds <= MaxTime
  /\ now' = now + TickSeconds
  /\ UNCHANGED <<tasks, chunks, docs, entities, claiming, held, nclaims>>
  /\ UNCHANGED others

\* ------------------------------------------------------------- enqueue
PAGE_SIZE == 1000
TASK_BATCH_SIZE == 100

DocRank(d) == CASE d = "d1" -> 1 [] OTHER -> 2

\* ORDER BY d.id, c.chunk_index
ChunkBefore(a, b) ==
  \/ DocRank(a[1]) < DocRank(b[1])
  \/ (a[1] = b[1] /\ a[2] < b[2])

\* WHERE d.collection = $1 [AND c.enrichment_status != 'enriched']
Selected(force, matching) ==
  {c \in matching : force \/ chunks[c].enrichment_status # "enriched"}

\* the rows after the (document_id, chunk_index) cursor, in order, LIMIT n
RECURSIVE PageFrom(_, _)
PageFrom(S, n) ==
  IF S = {} \/ n = 0 THEN <<>>
  ELSE LET first == CHOOSE c \in S : \A o \in S \ {c} : ChunkBefore(c, o)
       IN <<first>> \o PageFrom(S \ {first}, n - 1)

\* the cursor compares the document only
AfterCursorDocOnly(S, cursor) ==
  IF cursor = <<>> THEN S ELSE {c \in S : DocRank(cursor[1]) < DocRank(c[1])}

AfterCursor(S, cursor) ==
  IF cursor = <<>> THEN S ELSE {c \in S : ChunkBefore(cursor, c)}

\* INSERT INTO task_queue (queue, status, payload, run_after): the other
\* columns take their defaults
NewTask(c, at) ==
  [chunk |-> c, status |-> "pending", attempt |-> 1,
   max_attempts |-> DEFAULT_MAX_ATTEMPTS, run_after |-> at,
   leased_until |-> NULL, worker_id |-> NoWorker, completed_at |-> NULL]

\* one INSERT of at most TASK_BATCH_SIZE rows
RECURSIVE InsertBatches(_, _, _)
InsertBatches(queue, page, at) ==
  IF page = <<>> THEN queue
  ELSE LET n == IF Len(page) < TASK_BATCH_SIZE THEN Len(page) ELSE TASK_BATCH_SIZE
           batch == [i \in 1..n |-> NewTask(page[i], at)]
       IN InsertBatches(queue \o batch, SubSeq(page, n + 1, Len(page)), at)

\* the page loop of enqueueEnrichment
RECURSIVE EnqueuePages(_, _, _, _)
EnqueuePages(queue, S, cursor, at) ==
  LET page == PageFrom(AfterCursor(S, cursor), PAGE_SIZE)
  IN IF page = <<>> THEN queue
     ELSE EnqueuePages(InsertBatches(queue, page, at), S, page[Len(page)], at)

\* matching: the chunks of the collection that pass the text filter of the
\* request (all of them when the request has no filter)
enqueueEnrichment(force, matching) ==
  /\ Len(tasks) + Cardinality(Selected(force, matching)) <= MaxTasks
  /\ tasks' = EnqueuePages(tasks, Selected(force, matching), <<>>, now)
  /\ UNCHANGED <<now, chunks, docs, entities, claiming, held, nclaims>>
  /\ UNCHANGED others

\* --------------------------------------------------------------- claim
\* a row locked FOR UPDATE by a claim statement in flight
Locked(t) == \E w \in Workers : claiming[w].t = t

EligibleIgnoringRunAfter(t) == tasks[t].status = "pending"

\* status = 'pending' AND run_after <= now()
Eligible(t) == tasks[t].status = "pending" /\ tasks[t].run_after <= now

ClaimCandidatesNoSkip == {t \in TaskIds : Eligible(t)}

\* ... FOR UPDATE SKIP LOCKED
ClaimCandidates == {t \in TaskIds : Eligible(t) /\ ~Locked(t)}

\* the oldest eligible row, LIMIT 1
ClaimSelect ==
  IF ClaimCandidates = {} THEN NoTask
  ELSE CHOOSE t \in ClaimCandidates : \A o \in ClaimCandidates : t <= o

\* SET status = 'processing', leased_until = now() + lease, worker_id = w
ClaimWrite(row, w, lease, at) ==
  [row EXCEPT !.status = "processing", !.leased_until = at + lease,
              !.worker_id = w]

\* the sub-select of the claim statement takes the row lock, or finds no
\* eligible row and the claim returns empty
claimTaskLock(w, lease) ==
  /\ claiming[w] = NoClaim
  /\ nclaims < MaxClaims
  /\ IF ClaimSelect = NoTask
       THEN UNCHANGED <<claiming, nclaims>>
       ELSE /\ claiming' = [claiming EXCEPT ![w] =
                 [t |-> ClaimSelect, lease |-> lease, at |-> now]]
            /\ nclaims' = nclaims + 1
  /\ UNCHANGED <<now, tasks, chunks, docs, entities, held>>
  /\ UNCHANGED others

\* the row update of the claim statement and its commit: the task is
\* returned to the worker
claimTaskUpdate(w) ==
  /\ claiming[w] # NoClaim
  /\ LET c == claiming[w]
     IN /\ tasks' = [tasks EXCEPT ![c.t] = ClaimWrite(@, w, c.lease, c.at)]
        /\ held' = [held EXCEPT ![w] = @ \cup {c.t}]
  /\ claiming' = [claiming EXCEPT ![w] = NoClaim]
  /\ UNCHANGED <<now, chunks, docs, entities, nclaims>>
  /\ UNCHANGED others

\* the claim statement as one step: a single UPDATE ... WHERE id = (SELECT
\* ... FOR UPDATE SKIP LOCKED LIMIT 1) RETURNING; empty when no row is
\* eligible
claimTask(w, lease) ==
  /\ claiming[w] = NoClaim
  /\ nclaims < MaxClaims
  /\ IF ClaimSelect = NoTask
       THEN UNCHANGED <<tasks, held, nclaims>>
       ELSE /\ tasks' = [tasks EXCEPT ![ClaimSelect] = ClaimWrite(@, w, lease, now)]
            /\ held' = [held EXCEPT ![w] = @ \cup {ClaimSelect}]
            /\ nclaims' = nclaims + 1
  /\ UNCHANGED <<now, chunks, docs, entities, claiming>>
  /\ UNCHANGED others

\* ------------------------------------------------------- submit result
StripNothing(meta) == meta

\* tier3_meta - 'summary' - 'summary_short' - 'summary_medium' -
\* 'summary_long' - '_error'
Strip(meta) == [k \in (DOMAIN meta) \ STRIPPED_KEYS |-> meta[k]]

\* UPDATE chunks: enriched, tier3_meta merged and stripped, _error removed
SubmitChunkRow(row, tier3) ==
  [row EXCEPT !.enrichment_status = "enriched",
              !.tier3_meta = Strip(tier3 @@ row.tier3_meta),
              !.tier3_error = NoError]

\* UPDATE documents SET summary_medium = ...
SubmitDocRow(row, tier3) ==
  IF "summary_medium" \in DOMAIN tier3
    THEN [row EXCEPT !.summary_medium = tier3.summary_medium]
    ELSE row

\* UPDATE task_queue SET status = 'completed', completed_at = now()
SubmitTaskRow(row, at) ==
  [row EXCEPT !.status = "completed", !.completed_at = at]

\* the first k writes of the submission, in statement order
SubmitSteps(db, t, k, at) ==
  LET c == db.tasks[t].chunk
  IN [tasks    |-> IF k >= 4 THEN [db.tasks EXCEPT ![t] = SubmitTaskRow(@, at)]
                   ELSE db.tasks,
      chunks   |-> IF k >= 1
                   THEN [db.chunks EXCEPT ![c] = SubmitChunkRow(@, ResultTier3)]
                   ELSE db.chunks,
      docs     |-> IF k >= 2
                   THEN [db.docs EXCEPT ![DocOf(c)] = SubmitDocRow(@, ResultTier3)]
                   ELSE db.docs,
      entities |-> IF k >= 3 THEN db.entities \cup ResultEntities
                   ELSE db.entities]

SubmitOutcomeNoRollback(db, t, failAt, at) ==
  IF failAt = 0 THEN SubmitSteps(db, t, SUBMIT_STEPS, at)
  ELSE SubmitSteps(db, t, failAt - 1, at)

\* the transaction of a submission: failAt = 0 when every statement
\* succeeds, else the statement that throws; a throw rolls back
SubmitOutcome(db, t, failAt, at) ==
  IF failAt = 0 THEN SubmitSteps(db, t, SUBMIT_STEPS, at) ELSE db

submitTaskResult(w, t, wellFormed, failAt) ==
  /\ t \in held[w]
  /\ ~Locked(t)
  /\ LET db == [tasks |-> tasks, chunks |-> chunks, docs |-> docs,
                entities |-> entities]
         out == IF wellFormed THEN SubmitOutcome(db, t, failAt, now) ELSE db
     IN /\ tasks' = out.tasks
        /\ chunks' = out.chunks
        /\ docs' = out.docs
        /\ entities' = out.entities
  /\ held' = IF wellFormed /\ failAt = 0
               THEN [held EXCEPT ![w] = @ \ {t}] ELSE held
  /\ UNCHANGED <<now, claiming, nclaims>>
  /\ UNCHANGED others

\* ----------------------------------------------------------------- fail
\* the retry bumps the attempt counter
RetryAttempt(row) == row.attempt + 1

FailTaskRowNoDelay(row, at) ==
  IF row.attempt < row.max_attempts
    THEN [row EXCEPT !.status = "pending", !.attempt = RetryAttempt(row),
                     !.run_after = at]
    ELSE [row EXCEPT !.status = "dead", !.completed_at = at]

FailTaskRowOffByOne(row, at) ==
  IF row.attempt <= row.max_attempts
    THEN [row EXCEPT !.status = "pending", !.attempt = RetryAttempt(row),
                     !.run_after = at + RETRY_DELAY_SECONDS]
    ELSE [row EXCEPT !.status = "dead", !.completed_at = at]

\* retry with a fixed delay (status = 'pending', run_after = now() +
\* interval '60 seconds') while attempts are left, else dead letter
\* (status = 'dead', completed_at = now())
FailTaskRow(row, at) ==
  IF row.attempt < row.max_attempts
    THEN [row EXCEPT !.status = "pending", !.attempt = RetryAttempt(row),
                     !.run_after = at + RETRY_DELAY_SECONDS]
    ELSE [row EXCEPT !.status = "dead", !.completed_at = at]

FailChunkRowFinalOnly(row, task, t, msg) ==
  IF task.attempt >= task.max_attempts
    THEN [row EXCEPT !.enrichment_status = "failed",
                     !.tier3_error =
                        [message |-> msg, taskId |-> t, attempt |-> task.attempt,
                         maxAttempts |-> task.max_attempts, final |-> TRUE,
                         chunkIndex |-> task.chunk[2]]]
    ELSE row

\* UPDATE chunks c SET enrichment_status = 'failed', tier3_meta = ... ||
\* jsonb_build_object('_error', ...): issued for a final and for a
\* retryable failure alike
FailChunkRow(row, task, t, msg) ==
  [row EXCEPT !.enrichment_status = "failed",
              !.tier3_error =
                 [message |-> msg, taskId |-> t, attempt |-> task.attempt,
                  maxAttempts |-> task.max_attempts,
                  final |-> (task.attempt >= task.max_attempts),
                  chunkIndex |-> task.chunk[2]]]

failTask(w, t, msg) ==
  /\ t \in held[w]
  /\ ~Locked(t)
  /\ tasks' = [tasks EXCEPT ![t] = FailTaskRow(@, now)]
  /\ chunks' = [chunks EXCEPT ![tasks[t].chunk] =
                  FailChunkRow(@, tasks[t], t, msg)]
  /\ held' = [held EXCEPT ![w] = @ \ {t}]
  /\ UNCHANGED <<now, docs, entities, claiming, nclaims>>
  /\ UNCHANGED others

\* ------------------------------------------------------- recover-stale
StaleIgnoringLease(row, at) == row.status = "processing"

\* status = 'processing' AND leased_until < now()
Stale(row, at) == row.status = "processing" /\ row.leased_until < at

RecoverRowDelayed(row, at) ==
  IF Stale(row, at)
    THEN [row EXCEPT !.status = "pending",
                     !.run_after = at + RETRY_DELAY_SECONDS]
    ELSE row

\* SET status = 'pending': nothing else of the row is written
RecoverRow(row, at) ==
  IF Stale(row, at)
    THEN [row EXCEPT !.status = "pending"]
    ELSE row

recoverStaleTasks ==
  /\ tasks' = [t \in TaskIds |-> RecoverRow(tasks[t], now)]
  /\ UNCHANGED <<now, chunks, docs, entities, claiming, held, nclaims>>
  /\ UNCHANGED others

Next ==
  \/ Tick
  \/ \E force \in BOOLEAN, matching \in SUBSET Chunks :
       enqueueEnrichment(force, matching)
  \/ \E w \in Workers, lease \in LeaseDurations : claimTask(w, lease)
  \/ \E w \in Workers, t \in TaskIds, failAt \in 0..SUBMIT_STEPS :
       submitTaskResult(w, t, TRUE, failAt)
  \/ \E w \in Workers, t \in TaskIds : submitTaskResult(w, t, FALSE, 0)
  \/ \E w \in Workers, t \in TaskIds, msg \in ErrorMessages : failTask(w, t, msg)
  \/ recoverStaleTasks

Spec == Init /\ [][Next]_vars

\* the same system with the claim statement split at its row lock, to
\* observe claims that run at the same time
NextConcurrent ==
  \/ Tick
  \/ \E force \in BOOLEAN, matching \in SUBSET Chunks :
       enqueueEnrichment(force, matching)
  \/ \E w \in Workers, lease \in LeaseDurations : claimTaskLock(w, lease)
  \/ \E w \in Workers : claimTaskUpdate(w)
  \/ \E w \in Workers, t \in TaskIds, failAt \in 0..SUBMIT_STEPS :
       submitTaskResult(w, t, TRUE, failAt)
  \/ \E w \in Workers, t \in TaskIds : submitTaskResult(w, t, FALSE, 0)
  \/ \E w \in Workers, t \in TaskIds, msg \in ErrorMessages : failTask(w, t, msg)
  \/ recoverStaleTasks

SpecConcurrent == Init /\ [][NextConcurrent]_vars

\* ================================================================ claims
TasksOf(c) == {t \in TaskIds : tasks[t].chunk = c}
Other(w) == CHOOSE o \in Workers : o # w

\* C1: a task is never handed to two workers: claims that run at the same
\* time hold different rows, the row a claim holds is still pending (no
\* other worker got it), and a processing task carries the worker and the
\* lease written with its status.
C1_AtMostOneWorker ==
  /\ \A w \in Workers :
       claiming[w] # NoClaim =>
         /\ claiming[Other(w)].t # claiming[w].t
         /\ tasks[claiming[w].t].status = "pending"
  /\ \A t \in TaskIds :
       tasks[t].status = "processing" =>
         /\ tasks[t].worker_id \in Workers
         /\ tasks[t].leased_until >= ShortLease
         /\ tasks[t].leased_until <= now + ShortLease

\* two claims in flight at the same time
C1_Witness ==
  /\ claiming["w1"] # NoClaim
  /\ claiming["w2"] # NoClaim

\* C2: no chunk has two tasks in status pending or processing.
C2_OneOpenTaskPerChunk ==
  \A c \in Chunks :
    Cardinality({t \in TasksOf(c) :
                   tasks[t].status \in {"pending", "processing"}}) <= 1

\* C3: a task's status changes only along pending -> processing,
\* processing -> completed, processing -> pending and processing -> dead;
\* a completed or dead task keeps its status.
AllowedTransitions ==
  {<<"pending", "processing">>, <<"processing", "completed">>,
   <<"processing", "pending">>, <<"processing", "dead">>}

C3_StatusTransitions ==
  [][\A t \in TaskIds :
       tasks'[t].status # tasks[t].status =>
         <<tasks[t].status, tasks'[t].status>> \in AllowedTransitions]_vars

\* C4: a task abandoned by its worker is returned to pending by the sweep
\* once its lease has passed and is claimable at once; when another worker
\* then submits its result the task is completed and the chunk enriched.
Abandoned(t, w) == t \in held[Other(w)]

C4_CrashRecovery ==
  [][/\ recoverStaleTasks =>
          \A t \in TaskIds :
            (tasks[t].status = "processing" /\ tasks[t].leased_until < now) =>
              /\ tasks'[t].status = "pending"
              /\ tasks'[t].run_after <= now'
     /\ \A w \in Workers, t \in TaskIds :
          (submitTaskResult(w, t, TRUE, 0) /\ Abandoned(t, w)) =>
            /\ tasks'[t].status = "completed"
            /\ chunks'[tasks[t].chunk].enrichment_status = "enriched"]_vars

\* w1 never reported on the task; w2 claimed it after the sweep and
\* completed it
C4_Witness ==
  \E t \in TaskIds :
    /\ t \in held["w1"]
    /\ t \notin held["w2"]
    /\ tasks[t].status = "completed"
    /\ tasks[t].worker_id = "w2"
    /\ tasks[t].attempt = 1
    /\ chunks[tasks[t].chunk].enrichment_status = "enriched"

\* C5: the sweep moves exactly the processing tasks whose lease has passed
\* to pending, writes nothing else of them, and changes no other task.
C5_SweepFrame ==
  [][recoverStaleTasks =>
       /\ Len(tasks') = Len(tasks)
       /\ \A t \in TaskIds :
            IF tasks[t].status = "processing" /\ tasks[t].leased_until < now
              THEN /\ tasks'[t].status = "pending"
                   /\ tasks'[t].attempt = tasks[t].attempt
              ELSE tasks'[t] = tasks[t]]_vars

\* a swept task (pending, first attempt, lease in the past) next to a task
\* still processing under a lease that has not passed
C5_Witness ==
  \E t, u \in TaskIds :
    /\ tasks[t].status = "pending"
    /\ tasks[t].attempt = 1
    /\ tasks[t].leased_until # NULL
    /\ tasks[t].leased_until < now
    /\ tasks[u].status = "processing"
    /\ tasks[u].leased_until >= now

C7_FinalFailure ==
  [][\A w \in Workers, t \in TaskIds, msg \in ErrorMessages :
       (failTask(w, t, msg) /\ ~(tasks[t].attempt < tasks[t].max_attempts)) =>
         /\ tasks'[t].status = "dead"
         /\ tasks'[t].completed_at = now
         /\ chunks'[tasks[t].chunk].enrichment_status = "failed"
         /\ chunks'[tasks[t].chunk].tier3_error.message = msg]_vars

C7_Witness ==
  \E t \in TaskIds :
    /\ tasks[t].status = "dead"
    /\ tasks[t].completed_at = now
    /\ chunks[tasks[t].chunk].enrichment_status = "failed"
    /\ chunks[tasks[t].chunk].tier3_error.taskId = t
    /\ chunks[tasks[t].chunk].tier3_error.message = "Final attempt failed"

C9_ClaimOnlyEligible ==
  [][\A t \in TaskIds :
       (tasks'[t] # tasks[t] /\ tasks'[t].status = "processing") =>
         /\ tasks[t].status = "pending"
         /\ tasks[t].run_after <= now]_vars

\* a task claimed again after its retry delay
C9_Witness ==
  \E t \in TaskIds :
    /\ tasks[t].status = "processing"
    /\ tasks[t].attempt = 2
    /\ tasks[t].run_after <= now

\* C10: a submission either applies every write (chunk, document summary,
\* entities, task completed) or changes no row.
AllApplied(t) ==
  LET c == tasks[t].chunk
  IN /\ tasks'[t].status = "completed"
     /\ tasks'[t].completed_at = now
     /\ chunks'[c].enrichment_status = "enriched"
     /\ "otherField" \in DOMAIN chunks'[c].tier3_meta
     /\ docs'[DocOf(c)].summary_medium = ResultTier3.summary_medium
     /\ ResultEntities \subseteq entities'

C10_SubmitAllOrNothing ==
  [][\A w \in Workers, t \in TaskIds, wf \in BOOLEAN, failAt \in 0..SUBMIT_STEPS :
       submitTaskResult(w, t, wf, failAt) =>
         \/ AllApplied(t)
         \/ UNCHANGED <<tasks, chunks, docs, entities>>]_vars

C10_Witness ==
  \E t \in TaskIds :
    /\ tasks[t].status = "completed"
    /\ chunks[tasks[t].chunk].enrichment_status = "enriched"
    /\ docs[DocOf(tasks[t].chunk)].summary_medium = "S"
    /\ entities = ResultEntities

\* ===================================================================
\* enqueueEnrichment statement by statement: one page query, then one
\* INSERT per batch.  The loop is the one of the source with the page
\* and the batch scaled down (PageRows for PAGE_SIZE, BatchRows for
\* TASK_BATCH_SIZE), so that a collection of a few chunks spans several
\* pages and a page several batches.
\* ===================================================================
PageRows == 3
BatchRows == 2

\* a collection of two documents
PageChunks == {<<"d1", 0>>, <<"d1", 1>>, <<"d1", 2>>, <<"d2", 0>>, <<"d2", 1>>}

Min(a, b) == IF a < b THEN a ELSE b

InitEnqueue ==
  /\ now = 0
  /\ tasks = <<>>
  /\ chunks \in [PageChunks -> {[enrichment_status |-> st,
                                 tier3_meta |-> EmptyMeta,
                                 tier3_error |-> NoError] :
                                st \in {"none", "enriched"}}]
  /\ docs = [d \in Documents |-> [summary_medium |-> "null"]]
  /\ entities = {}
  /\ claiming = [w \in Workers |-> NoClaim]
  /\ held = [w \in Workers |-> {}]
  /\ nclaims = 0
  /\ urlBatch = NoBatch
  /\ embedCall = NoEmbed
  /\ ingest = NoIngest
  /\ ClientsIdle
  /\ enq = NoEnqueue
  /\ cleared = NoClear
  /\ flt = NoFilter
  /\ fetch = NoFetch

\* the request arrives.  matching: the chunks that pass the text filter in
\* the form the database accepts (all chunks when the request carries no
\* filter); tsInvalid: the database rejects the filter text as tsquery
EnqueueStart(force, matching, tsInvalid) ==
  /\ enq.pc = "idle"
  /\ enq' = [pc |-> "query", force |-> force, matching |-> matching,
             tsInvalid |-> tsInvalid, useTsQuery |-> TRUE,
             cursor |-> <<>>, page |-> <<>>, rest |-> <<>>, at |-> {},
             enqueued |-> 0, base |-> Len(tasks), pageBase |-> Len(tasks)]
  /\ UNCHANGED <<now, tasks, chunks, docs, entities, claiming, held, nclaims,
                 cleared, flt, fetch,
                 urlBatch, embedCall, ingest,
                 ingestReq, qry, textFilter, flush, urlCheck>>

\* the rows of the next page
EnqueuePage(S, cursor) == PageFrom(AfterCursor(S, cursor), PageRows)

\* SELECT ... WHERE ... ORDER BY d.id, c.chunk_index LIMIT: an invalid
\* tsquery restarts the loop with the ILIKE-only filter, an empty page ends
\* the loop, any other page is handed to the batch loop
EnqueueQuery ==
  /\ enq.pc = "query"
  /\ IF enq.useTsQuery /\ enq.tsInvalid
       THEN enq' = [enq EXCEPT !.useTsQuery = FALSE, !.cursor = <<>>]
       ELSE LET page == EnqueuePage(Selected(enq.force, enq.matching), enq.cursor)
            IN IF page = <<>>
                 THEN enq' = [enq EXCEPT !.pc = "returned"]
                 ELSE enq' = [enq EXCEPT !.pc = "insert", !.page = page,
                                         !.rest = page,
                                         !.at = @ \cup {now},
                                         !.pageBase = Len(tasks)]
  /\ UNCHANGED <<now, tasks, chunks, docs, entities, claiming, held, nclaims,
                 cleared, flt, fetch,
                 urlBatch, embedCall, ingest,
                 ingestReq, qry, textFilter, flush, urlCheck>>

\* a database error other than an invalid tsquery is thrown to the caller
EnqueueQueryFails ==
  /\ enq.pc = "query"
  /\ enq' = [enq EXCEPT !.pc = "query_failed"]
  /\ UNCHANGED <<now, tasks, chunks, docs, entities, claiming, held, nclaims,
                 cleared, flt, fetch,
                 urlBatch, embedCall, ingest,
                 ingestReq, qry, textFilter, flush, urlCheck>>

\* chunkPage.rows.slice(i, i + TASK_BATCH_SIZE)
BatchOf(rest) == SubSeq(rest, 1, Min(BatchRows, Len(rest)))

\* one INSERT INTO task_queue ... VALUES of a batch, on the pooled client
\* and outside any transaction: it is committed when it returns.  After
\* the last batch the cursor moves to the last row of the page
EnqueueInsert ==
  /\ enq.pc = "insert"
  /\ LET batch == BatchOf(enq.rest)
         at == CHOOSE t \in enq.at : \A o \in enq.at : o <= t
         left == SubSeq(enq.rest, Len(batch) + 1, Len(enq.rest))
     IN /\ tasks' = tasks \o [i \in 1..Len(batch) |-> NewTask(batch[i], at)]
        /\ enq' = IF left = <<>>
                    THEN [enq EXCEPT !.pc = "query", !.rest = left,
                                     !.enqueued = @ + Len(batch),
                                     !.cursor = enq.page[Len(enq.page)]]
                    ELSE [enq EXCEPT !.rest = left,
                                     !.enqueued = @ + Len(batch)]
  /\ UNCHANGED <<now, chunks, docs, entities, claiming, held, nclaims,
                 cleared, flt, fetch,
                 urlBatch, embedCall, ingest,
                 ingestReq, qry, textFilter, flush, urlCheck>>

\* the INSERT of a batch throws: the error leaves the function, the client
\* is released
EnqueueInsertFails ==
  /\ enq.pc = "insert"
  /\ enq' = [enq EXCEPT !.pc = "insert_failed"]
  /\ UNCHANGED <<now, tasks, chunks, docs, entities, claiming, held, nclaims,
                 cleared, flt, fetch,
                 urlBatch, embedCall, ingest,
                 ingestReq, qry, textFilter, flush, urlCheck>>

NextEnqueue ==
  \/ Tick
  \/ \E force \in BOOLEAN, matching \in SUBSET PageChunks, tsInvalid \in BOOLEAN :
       EnqueueStart(force, matching, tsInvalid)
  \/ EnqueueQuery
  \/ EnqueueQueryFails
  \/ EnqueueInsert
  \/ EnqueueInsertFails

SpecEnqueue == InitEnqueue /\ [][NextEnqueue]_vars

\* the tasks the invocation has inserted
Inserted == SubSeq(tasks, enq.base + 1, Len(tasks))

\* C11: when an enqueue invocation returns, it has inserted exactly one
\* task for every chunk selected by force flag and filter and none for any
\* other chunk, whatever the number of pages; each task is pending with
\* run_after the time its page was read; and the returned `enqueued` is the
\* number of tasks inserted
C11_OneTaskPerSelectedChunk ==
  enq.pc = "returned" =>
    /\ \A c \in Selected(enq.force, enq.matching) :
         Cardinality({i \in 1..Len(Inserted) : Inserted[i].chunk = c}) = 1
    /\ \A i \in 1..Len(Inserted) :
         /\ Inserted[i].chunk \in Selected(enq.force, enq.matching)
         /\ Inserted[i].status = "pending"
         /\ Inserted[i].run_after \in enq.at
         /\ Inserted[i].run_after <= now
    /\ enq.enqueued = Len(Inserted)

\* an invocation returned after more than one page, the second page
\* starting inside a document and read later than the first
C11_Witness ==
  /\ enq.pc = "returned"
  /\ enq.enqueued > PageRows
  /\ Cardinality(enq.at) > 1
  /\ \E i \in 1..Len(Inserted) - 1 :
       /\ Inserted[i].run_after < Inserted[i + 1].run_after
       /\ Inserted[i].chunk[1] = Inserted[i + 1].chunk[1]

\* C12: when an insert of a page fails, none of the tasks of that page
\* remain in the queue
C12_PageAllOrNothing ==
  enq.pc = "insert_failed" => Len(tasks) = enq.pageBase

\* ===================================================================
\* clearEnrichmentQueue: one DELETE ... RETURNING on task_queue
\* ===================================================================
ClearTaskIds == {1, 2}
Queues == {"enrichment", "other"}
Statuses == {"pending", "processing", "completed", "dead"}
\* payload->>'collection'; "" when the payload carries none
PayloadCollections == {"", "docs", "test"}
\* what of a task's payload the filter text of the request hits: nothing,
\* an ILIKE pattern (and possibly the tsvector), or the tsvector alone
Matches == {"none", "ilike", "ts"}
\* the filter of a request: absent, accepted by websearch_to_tsquery, or
\* rejected by it as invalid syntax
ClearFilters == {"", "my-repo", "\"unterminated"}
\* the collection argument of the route and of the request body
CollectionArgs == {"", "docs", "test"}

ClearRows ==
  [queue : Queues, status : Statuses, collection : PayloadCollections,
   match : Matches]

InitClear ==
  /\ now = 0
  /\ \E rows \in [ClearTaskIds -> ClearRows] :
       tasks = [i \in 1..Cardinality(ClearTaskIds) |->
                  [id |-> i, queue |-> rows[i].queue, status |-> rows[i].status,
                   collection |-> rows[i].collection, match |-> rows[i].match]]
  /\ chunks = [c \in Chunks |->
       [enrichment_status |-> "none", tier3_meta |-> EmptyMeta,
        tier3_error |-> NoError]]
  /\ docs = [d \in Documents |-> [summary_medium |-> "null"]]
  /\ entities = {}
  /\ claiming = [w \in Workers |-> NoClaim]
  /\ held = [w \in Workers |-> {}]
  /\ nclaims = 0
  /\ urlBatch = NoBatch
  /\ embedCall = NoEmbed
  /\ ingest = NoIngest
  /\ ClientsIdle
  /\ enq = NoEnqueue
  /\ cleared = NoClear
  /\ flt = NoFilter
  /\ fetch = NoFetch

\* const col = collection || request.collection || "docs"
ClearCollection(collection, requested) ==
  IF collection # "" THEN collection
  ELSE IF requested # "" THEN requested ELSE "docs"

\* COALESCE(t.payload->>'collection', 'docs')
CoalesceCollection(row) == IF row.collection = "" THEN "docs" ELSE row.collection

\* the filter clause of runQuery(enableTsQuery)
FilterClause(row, filter, enableTsQuery) ==
  \/ filter = ""
  \/ row.match = "ilike"
  \/ (enableTsQuery /\ row.match = "ts")

\* websearch_to_tsquery raises a syntax error on the filter text
IsInvalidTsQuery(filter) == filter = "\"unterminated"

CLEARED_STATUSES == {"pending", "processing", "dead"}

ClearWhereAnyStatus(row, col, filter, enableTsQuery) ==
  /\ row.queue = "enrichment"
  /\ CoalesceCollection(row) = col
  /\ FilterClause(row, filter, enableTsQuery)

\* WHERE t.queue = 'enrichment' AND t.status IN ('pending', 'processing',
\* 'dead') AND COALESCE(t.payload->>'collection', 'docs') = $1 <filter>
ClearWhere(row, col, filter, enableTsQuery) ==
  /\ row.queue = "enrichment"
  /\ row.status \in CLEARED_STATUSES
  /\ CoalesceCollection(row) = col
  /\ FilterClause(row, filter, enableTsQuery)

\* runQuery(true), and runQuery(false) after an invalid tsquery; the reply
\* carries rowCount
clearEnrichmentQueue(collection, requested, filter) ==
  LET col == ClearCollection(collection, requested)
      enableTsQuery == ~IsInvalidTsQuery(filter)
      Kept(row) == ~ClearWhere(row, col, filter, enableTsQuery)
  IN /\ tasks' = SelectSeq(tasks, Kept)
     /\ cleared' = [pc |-> "done", collection |-> col, filter |-> filter,
                    cleared |-> Len(tasks) - Len(SelectSeq(tasks, Kept))]
     /\ UNCHANGED <<now, chunks, docs, entities, claiming, held, nclaims,
                    enq, flt, fetch,
                    urlBatch, embedCall, ingest,
                    ingestReq, qry, textFilter, flush, urlCheck>>

NextClear ==
  \E collection \in CollectionArgs, requested \in CollectionArgs,
     filter \in ClearFilters :
    clearEnrichmentQueue(collection, requested, filter)

SpecClear == InitClear /\ [][NextClear]_vars

RowsOf(q) == {q[i] : i \in 1..Len(q)}

\* C13: a clear request deletes only tasks of queue 'enrichment' whose
\* status is pending, processing or dead, whose collection is the requested
\* one and which the filter (if any) hits; completed tasks and tasks of
\* other collections all stay, the rows that stay are unchanged, and the
\* returned `cleared` is the number of rows deleted
C13_ClearFrame ==
  [][\A collection \in CollectionArgs, requested \in CollectionArgs,
        filter \in ClearFilters :
       clearEnrichmentQueue(collection, requested, filter) =>
         LET col == IF collection # "" THEN collection
                    ELSE IF requested # "" THEN requested ELSE "docs"
             gone == RowsOf(tasks) \ RowsOf(tasks')
         IN /\ RowsOf(tasks') \subseteq RowsOf(tasks)
            /\ \A row \in gone :
                 /\ row.queue = "enrichment"
                 /\ row.status \in {"pending", "processing", "dead"}
                 /\ (row.collection = col \/ (row.collection = "" /\ col = "docs"))
                 /\ (filter # "" => row.match # "none")
            /\ cleared'.cleared = Cardinality(gone)
            /\ Len(tasks') = Len(tasks) - Cardinality(gone)]_vars

\* a filtered clear deleted a task and left a completed task of the same
\* collection, hit by the same filter, in place
C13_Witness ==
  /\ cleared.pc = "done"
  /\ cleared.cleared = 1
  /\ cleared.filter # ""
  /\ \E i \in 1..Len(tasks) :
       /\ tasks[i].status = "completed"
       /\ tasks[i].queue = "enrichment"
       /\ tasks[i].collection = cleared.collection
       /\ tasks[i].match = "ilike"

\* ===================================================================
\* The filter compiler (pg-helpers.ts): translateFilter and what it calls.
\* A SQL fragment is a sequence of tokens: literal SQL text written in the
\* source, a column reference alias.column, or a placeholder $n.  A column
\* name is the sequence of its characters, so that toSnakeCase and the
\* pattern test of toAllowedColumn work on what the caller sent.
\* ===================================================================
UNDEFINED == "undefined"
BAD_REQUEST == 400

\* the spelling of the strings whose characters the compiler looks at
Chars(s) ==
  CASE s = "docType" ->
      <<"d", "o", "c", "T", "y", "p", "e">>
    [] s = "repoId" ->
      <<"r", "e", "p", "o", "I", "d">>
    [] s = "ChunkIndex" ->
      <<"C", "h", "u", "n", "k", "I", "n", "d", "e", "x">>
    [] s = "source" ->
      <<"s", "o", "u", "r", "c", "e">>
    [] s = "combine" ->
      <<"c", "o", "m", "b", "i", "n", "e">>
    [] s = "id; DROP TABLE chunks--" ->
      <<"i", "d", ";", " ", "D", "R", "O", "P", " ", "T", "A", "B", "L", "E", " ", "c", "h", "u", "n", "k", "s", "-", "-">>
    [] s = "chunk_index" ->
      <<"c", "h", "u", "n", "k", "_", "i", "n", "d", "e", "x">>
    [] s = "doc_type" ->
      <<"d", "o", "c", "_", "t", "y", "p", "e">>
    [] s = "repo_id" ->
      <<"r", "e", "p", "o", "_", "i", "d">>
    [] s = "repo_url" ->
      <<"r", "e", "p", "o", "_", "u", "r", "l">>
    [] s = "path" ->
      <<"p", "a", "t", "h">>
    [] s = "lang" ->
      <<"l", "a", "n", "g">>
    [] s = "item_url" ->
      <<"i", "t", "e", "m", "_", "u", "r", "l">>
    [] s = "enrichment_status" ->
      <<"e", "n", "r", "i", "c", "h", "m", "e", "n", "t", "_", "s", "t", "a", "t", "u", "s">>
    [] s = "created_at" ->
      <<"c", "r", "e", "a", "t", "e", "d", "_", "a", "t">>
    [] s = "ingested_at" ->
      <<"i", "n", "g", "e", "s", "t", "e", "d", "_", "a", "t">>
    [] s = "updated_at" ->
      <<"u", "p", "d", "a", "t", "e", "d", "_", "a", "t">>
    [] s = "last_seen" ->
      <<"l", "a", "s", "t", "_", "s", "e", "e", "n">>
    [] s = "mime_type" ->
      <<"m", "i", "m", "e", "_", "t", "y", "p", "e">>

Sql(text) == [t |-> "sql", s |-> text]
Col(alias, column) == [t |-> "col", alias |-> alias, column |-> column]
Param(n) == [t |-> "param", n |-> n]

\* class FilterValidationError: statusCode = 400
FilterValidationError(message) ==
  [ok |-> FALSE, name |-> "FilterValidationError", statusCode |-> BAD_REQUEST,
   message |-> message]
\* new Error(...): no statusCode
PlainError(message) ==
  [ok |-> FALSE, name |-> "Error", statusCode |-> NULL, message |-> message]

TEXT_OPS == {"eq", "ne", "in", "notIn", "isNull", "isNotNull"}
TEMPORAL_OPS == {"eq", "ne", "gt", "gte", "lt", "lte", "between", "notBetween",
                 "in", "notIn", "isNull", "isNotNull"}

FieldDef(alias, column, ops) ==
  [tableAlias |-> alias, column |-> Chars(column), allowedOps |-> ops]

FIELD_NAMES ==
  {"chunkIndex", "docType", "repoId", "repoUrl", "path", "lang", "itemUrl",
   "enrichmentStatus", "createdAt", "ingestedAt", "updatedAt", "lastSeen",
   "mimeType"}

FIELD_DEFS ==
  [f \in FIELD_NAMES |->
     CASE f = "chunkIndex" -> FieldDef("c", "chunk_index", TEMPORAL_OPS)
       [] f = "docType" -> FieldDef("c", "doc_type", TEXT_OPS)
       [] f = "repoId" -> FieldDef("c", "repo_id", TEXT_OPS)
       [] f = "repoUrl" -> FieldDef("c", "repo_url", TEXT_OPS)
       [] f = "path" -> FieldDef("c", "path", TEXT_OPS)
       [] f = "lang" -> FieldDef("c", "lang", TEXT_OPS)
       [] f = "itemUrl" -> FieldDef("c", "item_url", TEXT_OPS)
       [] f = "enrichmentStatus" -> FieldDef("c", "enrichment_status", TEXT_OPS)
       [] f = "createdAt" -> FieldDef("c", "created_at", TEMPORAL_OPS)
       [] f = "ingestedAt" -> FieldDef("d", "ingested_at", TEMPORAL_OPS)
       [] f = "updatedAt" -> FieldDef("d", "updated_at", TEMPORAL_OPS)
       [] f = "lastSeen" -> FieldDef("d", "last_seen", TEMPORAL_OPS)
       [] f = "mimeType" -> FieldDef("d", "mime_type", TEXT_OPS)]

\* { sql, params, nextIndex } of translateCondition
Fragment(sql, params, nextIndex) ==
  [ok |-> TRUE, sql |-> sql, params |-> params, nextIndex |-> nextIndex]

PlaceholdersSameIndex(n, paramIndex) ==
  [i \in 1..(2 * n - 1) |->
     IF i % 2 = 1 THEN Param(paramIndex) ELSE Sql(", ")]

\* cond.values.map((_, i) => `$${paramIndex + i}`).join(", ")
Placeholders(n, paramIndex) ==
  [i \in 1..(2 * n - 1) |->
     IF i % 2 = 1 THEN Param(paramIndex + (i - 1) \div 2) ELSE Sql(", ")]

AllowedOpAny(fieldDef, op) == TRUE

\* fieldDef.allowedOps.has(cond.op)
AllowedOp(fieldDef, op) == op \in fieldDef.allowedOps

\* !cond.range || cond.range.low === undefined || cond.range.high === undefined
RangeMissing(cond) ==
  \/ ~cond.range.present
  \/ cond.range.low = UNDEFINED
  \/ cond.range.high = UNDEFINED

\* !Array.isArray(cond.values) || cond.values.length === 0
ValuesMissing(cond) == ~cond.values.isArray \/ Len(cond.values.items) = 0

translateCondition(cond, paramIndex) ==
  IF cond.field \notin DOMAIN FIELD_DEFS
    THEN FilterValidationError("Unknown filter field")
  ELSE
    LET fieldDef == FIELD_DEFS[cond.field]
        expectedAlias == fieldDef.tableAlias
        col == Col(expectedAlias, fieldDef.column)
        isPath == fieldDef.column = Chars("path")
        p == Param(paramIndex)
        Compare(text) ==
          Fragment(<<col, Sql(text), p>>, <<cond.value>>, paramIndex + 1)
    IN IF cond.alias # UNDEFINED /\ cond.alias # expectedAlias
         THEN FilterValidationError("requires alias")
       ELSE IF ~AllowedOp(fieldDef, cond.op)
         THEN FilterValidationError("Operator not allowed for field")
       ELSE
         CASE cond.op = "eq" ->
                IF isPath
                  THEN Fragment(<<col, Sql(" LIKE "), p, Sql(" || '%'")>>,
                                <<cond.value>>, paramIndex + 1)
                  ELSE Compare(" = ")
           [] cond.op = "ne" ->
                IF isPath
                  THEN Fragment(<<col, Sql(" NOT LIKE "), p, Sql(" || '%'")>>,
                                <<cond.value>>, paramIndex + 1)
                  ELSE Compare(" != ")
           [] cond.op = "gt" -> Compare(" > ")
           [] cond.op = "gte" -> Compare(" >= ")
           [] cond.op = "lt" -> Compare(" < ")
           [] cond.op = "lte" -> Compare(" <= ")
           [] cond.op = "in" ->
                IF ValuesMissing(cond)
                  THEN FilterValidationError("in requires non-empty values array")
                  ELSE Fragment(<<col, Sql(" IN (")>>
                                  \o Placeholders(Len(cond.values.items), paramIndex)
                                  \o <<Sql(")")>>,
                                cond.values.items,
                                paramIndex + Len(cond.values.items))
           [] cond.op = "notIn" ->
                IF ValuesMissing(cond)
                  THEN FilterValidationError("notIn requires non-empty values array")
                  ELSE Fragment(<<col, Sql(" NOT IN (")>>
                                  \o Placeholders(Len(cond.values.items), paramIndex)
                                  \o <<Sql(")")>>,
                                cond.values.items,
                                paramIndex + Len(cond.values.items))
           [] cond.op = "between" ->
                IF RangeMissing(cond)
                  THEN FilterValidationError("between requires range.low and range.high")
                  ELSE Fragment(<<col, Sql(" >= "), p, Sql(" AND "), col,
                                  Sql(" <= "), Param(paramIndex + 1)>>,
                                <<cond.range.low, cond.range.high>>,
                                paramIndex + 2)
           [] cond.op = "notBetween" ->
                IF RangeMissing(cond)
                  THEN FilterValidationError("notBetween requires range.low and range.high")
                  ELSE Fragment(<<Sql("("), col, Sql(" < "), p, Sql(" OR "), col,
                                  Sql(" > "), Param(paramIndex + 1), Sql(")")>>,
                                <<cond.range.low, cond.range.high>>,
                                paramIndex + 2)
           [] cond.op = "isNull" -> Fragment(<<col, Sql(" IS NULL")>>, <<>>, paramIndex)
           [] cond.op = "isNotNull" ->
                Fragment(<<col, Sql(" IS NOT NULL")>>, <<>>, paramIndex)
           [] OTHER -> FilterValidationError("Unknown operator")

\* rawCombine.toUpperCase()
ToUpperCase(combine) ==
  CASE combine = "and" -> "AND"
    [] combine = "or" -> "OR"
    [] combine = "xor" -> "XOR"
    [] OTHER -> combine

\* sqlFragments.join(sep); sep is a sequence of tokens
RECURSIVE JoinFragments(_, _)
JoinFragments(fragments, sep) ==
  IF Len(fragments) = 0 THEN <<>>
  ELSE IF Len(fragments) = 1 THEN fragments[1]
  ELSE fragments[1] \o sep \o JoinFragments(Tail(fragments), sep)

\* the loop over dsl.conditions: acc holds sqlFragments, params, paramIndex
RECURSIVE TranslateConditions(_, _)
TranslateConditions(conditions, acc) ==
  IF conditions = <<>> THEN acc
  ELSE LET result == translateCondition(Head(conditions), acc.paramIndex)
       IN IF ~result.ok THEN result
          ELSE TranslateConditions(Tail(conditions),
                 [ok |-> TRUE,
                  sqlFragments |-> Append(acc.sqlFragments, result.sql),
                  params |-> acc.params \o result.params,
                  paramIndex |-> result.nextIndex])

FirstParamIndex(paramIndexOffset) == 1 + paramIndexOffset

translateNewDSL(conditions, rawCombineOrUndefined, paramIndexOffset) ==
  LET rawCombine == IF rawCombineOrUndefined = UNDEFINED THEN "and"
                    ELSE rawCombineOrUndefined
  IN IF rawCombine # "and" /\ rawCombine # "or"
       THEN FilterValidationError("Invalid combine operator")
     ELSE
       LET acc == TranslateConditions(conditions,
                    [ok |-> TRUE, sqlFragments |-> <<>>, params |-> <<>>,
                     paramIndex |-> FirstParamIndex(paramIndexOffset)])
       IN IF ~acc.ok THEN acc
          ELSE IF Len(acc.sqlFragments) = 0
            THEN [ok |-> TRUE, sql |-> <<>>, params |-> <<>>]
          ELSE
            LET joined ==
                  IF Len(acc.sqlFragments) = 1 THEN acc.sqlFragments[1]
                  ELSE <<Sql("(")>>
                       \o JoinFragments(acc.sqlFragments,
                            <<Sql(" "), Sql(ToUpperCase(rawCombine)), Sql(" ")>>)
                       \o <<Sql(")")>>
            IN [ok |-> TRUE, sql |-> <<Sql(" AND ")>> \o joined,
                params |-> acc.params]

UPPER_CASE == <<"A", "B", "C", "D", "E", "F", "G", "H", "I", "J", "K", "L", "M", "N", "O", "P", "Q", "R", "S", "T", "U", "V", "W", "X", "Y", "Z">>
LOWER_CASE == <<"a", "b", "c", "d", "e", "f", "g", "h", "i", "j", "k", "l", "m", "n", "o", "p", "q", "r", "s", "t", "u", "v", "w", "x", "y", "z">>
DIGITS == {"0", "1", "2", "3", "4", "5", "6", "7", "8", "9"}

IsUpper(ch) == \E i \in 1..Len(UPPER_CASE) : UPPER_CASE[i] = ch
ToLowerCase(ch) ==
  LOWER_CASE[CHOOSE i \in 1..Len(UPPER_CASE) : UPPER_CASE[i] = ch]

\* str.replace(/([A-Z])/g, (match, p1, offset) =>
\*   offset === 0 ? p1.toLowerCase() : `_${p1.toLowerCase()}`)
RECURSIVE SnakeFrom(_, _)
SnakeFrom(str, i) ==
  IF i > Len(str) THEN <<>>
  ELSE (IF IsUpper(str[i])
          THEN (IF i = 1 THEN <<ToLowerCase(str[i])>>
                ELSE <<"_", ToLowerCase(str[i])>>)
          ELSE <<str[i]>>)
       \o SnakeFrom(str, i + 1)

toSnakeCase(str) == SnakeFrom(str, 1)

\* /^[a-z_][a-z0-9_]*$/.test(column)
IsIdentifier(column) ==
  /\ Len(column) > 0
  /\ \A i \in 1..Len(column) :
       \/ \E k \in 1..Len(LOWER_CASE) : LOWER_CASE[k] = column[i]
       \/ column[i] = "_"
       \/ (i > 1 /\ column[i] \in DIGITS)

ALLOWED_FILTER_COLUMNS ==
  {Chars("chunk_index"), Chars("doc_type"), Chars("repo_id"), Chars("repo_url"),
   Chars("path"), Chars("lang"), Chars("item_url"), Chars("enrichment_status")}

toAllowedColumnUnchecked(key) ==
  [ok |-> TRUE, column |-> toSnakeCase(Chars(key))]

toAllowedColumn(key) ==
  LET column == toSnakeCase(Chars(key))
  IN IF ~IsIdentifier(column) \/ column \notin ALLOWED_FILTER_COLUMNS
       THEN PlainError("Unsupported filter key")
       ELSE [ok |-> TRUE, column |-> column]

\* one pushed condition of the legacy path: prefix match on path, else
\* (in)equality
LegacyCondition(tableAlias, column, paramIndex, negated) ==
  IF column = Chars("path")
    THEN <<Col(tableAlias, column),
           Sql(IF negated THEN " NOT LIKE " ELSE " LIKE "),
           Param(paramIndex), Sql(" || '%'")>>
    ELSE <<Col(tableAlias, column),
           Sql(IF negated THEN " != " ELSE " = "),
           Param(paramIndex)>>

\* the loop over the conditions of a must / must_not entry
RECURSIVE LegacyMatches(_, _, _, _)
LegacyMatches(conds, acc, tableAlias, negated) ==
  IF conds = <<>> THEN acc
  ELSE LET cond == Head(conds)
           allowed == toAllowedColumn(cond.key)
           \* cond.match.value ?? cond.match.text
           filterValue == IF cond.value # UNDEFINED THEN cond.value ELSE cond.text
       IN IF ~allowed.ok THEN allowed
          ELSE LegacyMatches(Tail(conds),
                 [ok |-> TRUE,
                  conditions |-> Append(acc.conditions,
                     LegacyCondition(tableAlias, allowed.column, acc.paramIndex,
                                     negated)),
                  params |-> Append(acc.params, filterValue),
                  paramIndex |-> acc.paramIndex + 1],
                 tableAlias, negated)

\* the loop over Object.entries(filter)
RECURSIVE LegacyEntries(_, _, _)
LegacyEntries(entries, acc, tableAlias) ==
  IF entries = <<>> \/ ~acc.ok THEN acc
  ELSE LET entry == Head(entries)
       IN IF entry.key = "must"
            THEN LegacyEntries(Tail(entries),
                   LegacyMatches(entry.conds, acc, tableAlias, FALSE), tableAlias)
          ELSE IF entry.key = "must_not"
            THEN LegacyEntries(Tail(entries),
                   LegacyMatches(entry.conds, acc, tableAlias, TRUE), tableAlias)
          ELSE LET allowed == toAllowedColumn(entry.key)
               IN IF ~allowed.ok THEN allowed
                  ELSE LegacyEntries(Tail(entries),
                         [ok |-> TRUE,
                          conditions |-> Append(acc.conditions,
                             LegacyCondition(tableAlias, allowed.column,
                                             acc.paramIndex, FALSE)),
                          params |-> Append(acc.params, entry.value),
                          paramIndex |-> acc.paramIndex + 1],
                         tableAlias)

translateLegacyFilter(entries, paramIndexOffset, tableAlias) ==
  LET acc == LegacyEntries(entries,
               [ok |-> TRUE, conditions |-> <<>>, params |-> <<>>,
                paramIndex |-> 1 + paramIndexOffset],
               tableAlias)
  IN IF ~acc.ok THEN acc
     ELSE [ok |-> TRUE,
           sql |-> IF Len(acc.conditions) > 0
                     THEN <<Sql(" AND ")>>
                          \o JoinFragments(acc.conditions, <<Sql(" AND ")>>)
                     ELSE <<>>,
           params |-> acc.params]

\* Object.keys(filter)
KeysOf(filter) == {filter.entries[i].key : i \in 1..Len(filter.entries)}
EntryOf(filter, key) ==
  filter.entries[CHOOSE i \in 1..Len(filter.entries) : filter.entries[i].key = key]

DSL_KEYS == {"conditions", "combine"}

translateFilter(filter, paramIndexOffset, tableAlias) ==
  IF ~filter.present THEN [ok |-> TRUE, sql |-> <<>>, params |-> <<>>]
  ELSE IF "conditions" \in KeysOf(filter)
    THEN IF KeysOf(filter) \ DSL_KEYS # {}
           THEN FilterValidationError("Mixed filter format detected")
           ELSE translateNewDSL(EntryOf(filter, "conditions").conds,
                                IF "combine" \in KeysOf(filter)
                                  THEN EntryOf(filter, "combine").value
                                  ELSE UNDEFINED,
                                paramIndexOffset)
  ELSE translateLegacyFilter(filter.entries, paramIndexOffset, tableAlias)

\* ------------------------------------------------- the filters compiled
MaxConds == 3
MaxEntries == 2

INJECTION == "x'; DROP TABLE chunks--"

NoValues == [isArray |-> FALSE, items |-> <<>>]
NoRange == [present |-> FALSE, low |-> UNDEFINED, high |-> UNDEFINED]

\* what a condition carries besides field, op and alias
CondArgs ==
  {[value |-> INJECTION, values |-> [isArray |-> TRUE, items |-> <<"ts", INJECTION>>],
    range |-> [present |-> TRUE, low |-> "2025-01-01", high |-> INJECTION]],
   [value |-> UNDEFINED, values |-> [isArray |-> TRUE, items |-> <<>>],
    range |-> [present |-> TRUE, low |-> "2025-01-01", high |-> UNDEFINED]],
   [value |-> UNDEFINED, values |-> NoValues, range |-> NoRange]}

CondFields == {"docType", "path", "lang", "createdAt", "ingestedAt", "bogus", INJECTION}
CondOps == TEMPORAL_OPS \cup {"like", INJECTION}
CondAliases == {UNDEFINED, "c", "d", INJECTION}
CombineArgs == {UNDEFINED, "and", "or", "xor", INJECTION}

Cond(field, op, alias, args) ==
  [field |-> field, op |-> op, alias |-> alias, value |-> args.value,
   values |-> args.values, range |-> args.range]

\* every single condition
SingleConds ==
  {Cond(f, o, a, args) : f \in CondFields, o \in CondOps, a \in CondAliases,
                         args \in CondArgs}

ValueCond(field, op, value) ==
  [field |-> field, op |-> op, alias |-> UNDEFINED, value |-> value,
   values |-> NoValues, range |-> NoRange]

\* the conditions that filters of several conditions are made of
ListedConds ==
  {ValueCond("docType", "eq", "code"),
   ValueCond("lang", "eq", "ts"),
   ValueCond("path", "ne", INJECTION),
   ValueCond("docType", "gt", "code"),
   [ValueCond("lang", "in", UNDEFINED) EXCEPT
      !.values = [isArray |-> TRUE, items |-> <<"ts", "js">>]],
   [ValueCond("createdAt", "notBetween", UNDEFINED) EXCEPT
      !.range = [present |-> TRUE, low |-> "2025-01-01", high |-> "2025-12-31"]],
   [ValueCond("ingestedAt", "isNull", UNDEFINED) EXCEPT !.alias = "d"]}

Entry(key, value, conds) == [key |-> key, value |-> value, conds |-> conds]

\* { conditions: [...], combine?, <extra legacy key>? }
DslFilter(conds, combine, mixed) ==
  [present |-> TRUE,
   entries |-> <<Entry("conditions", UNDEFINED, conds)>>
               \o (IF combine = UNDEFINED THEN <<>>
                   ELSE <<Entry("combine", combine, <<>>)>>)
               \o (IF mixed THEN <<Entry("docType", "code", <<>>)>> ELSE <<>>)]

DslFilters ==
  {DslFilter(<<>>, UNDEFINED, FALSE)}
  \cup {DslFilter(<<c>>, combine, mixed) :
          c \in SingleConds, combine \in CombineArgs, mixed \in BOOLEAN}
  \cup {DslFilter(conds, combine, FALSE) :
          conds \in UNION {[1..n -> ListedConds] : n \in 2..MaxConds},
          combine \in CombineArgs}

LegacyKeys ==
  {"docType", "repoId", "ChunkIndex", "doc_type", "path", "source", "combine",
   "id; DROP TABLE chunks--"}
\* { key, match: { value?, text? } }
MatchConds ==
  {[key |-> k, value |-> m[1], text |-> m[2]] :
     k \in {"path", "repoId", "source"},
     m \in {<<"v", UNDEFINED>>, <<UNDEFINED, INJECTION>>}}

\* the must / must_not entries whose list holds n conditions
MatchEntries(n) ==
  {Entry(k, UNDEFINED, conds) :
     k \in {"must", "must_not"}, conds \in [1..n -> MatchConds]}

\* every single entry
LegacyEntrySet ==
  {Entry(k, v, <<>>) : k \in LegacyKeys, v \in {"code", INJECTION}}
  \cup UNION {MatchEntries(n) : n \in 1..MaxEntries}

\* the entries that filters of several entries are made of
ListedEntries ==
  {Entry(k, v, <<>>) : k \in LegacyKeys, v \in {"code", INJECTION}}
  \cup MatchEntries(1)

LegacyFilters ==
  {[present |-> TRUE, entries |-> <<e>>] : e \in LegacyEntrySet}
  \cup {[present |-> TRUE, entries |-> es] :
          es \in {e \in UNION {[1..n -> ListedEntries] :
                                 n \in {0} \cup 2..MaxEntries} :
                    \A i, j \in 1..Len(e) : i # j => e[i].key # e[j].key}}

NoFilterGiven == [present |-> FALSE, entries |-> <<>>]

ParamIndexOffsets == {0, 4}
TableAliases == {"c", "chunks"}

InitFilter ==
  /\ now = 0
  /\ tasks = <<>>
  /\ chunks = [c \in Chunks |->
       [enrichment_status |-> "none", tier3_meta |-> EmptyMeta,
        tier3_error |-> NoError]]
  /\ docs = [d \in Documents |-> [summary_medium |-> "null"]]
  /\ entities = {}
  /\ claiming = [w \in Workers |-> NoClaim]
  /\ held = [w \in Workers |-> {}]
  /\ nclaims = 0
  /\ urlBatch = NoBatch
  /\ embedCall = NoEmbed
  /\ ingest = NoIngest
  /\ ClientsIdle
  /\ enq = NoEnqueue
  /\ cleared = NoClear
  /\ fetch = NoFetch
  /\ \/ \E f \in DslFilters \cup {NoFilterGiven}, k \in ParamIndexOffsets :
          flt = [pc |-> "called", filter |-> f, paramIndexOffset |-> k,
                 tableAlias |-> "c"]
     \/ \E f \in LegacyFilters, k \in ParamIndexOffsets, a \in TableAliases :
          flt = [pc |-> "called", filter |-> f, paramIndexOffset |-> k,
                 tableAlias |-> a]

\* translateFilter returns or throws
TranslateFilter ==
  /\ flt.pc = "called"
  /\ flt' = [pc |-> "done", filter |-> flt.filter,
             paramIndexOffset |-> flt.paramIndexOffset,
             tableAlias |-> flt.tableAlias,
             out |-> translateFilter(flt.filter, flt.paramIndexOffset,
                                     flt.tableAlias)]
  /\ UNCHANGED <<now, tasks, chunks, docs, entities, claiming, held, nclaims,
                 enq, cleared, fetch,
                 urlBatch, embedCall, ingest,
                 ingestReq, qry, textFilter, flush, urlCheck>>

NextFilter == TranslateFilter

SpecFilter == InitFilter /\ [][NextFilter]_vars

\* ------------------------------------------- claims on the filter compiler
IsDsl(filter) == filter.present /\ "conditions" \in KeysOf(filter)
IsLegacy(filter) == filter.present /\ "conditions" \notin KeysOf(filter)
Compiled == flt.pc = "done" /\ flt.out.ok

\* the SQL text the compiler may emit
SqlText ==
  {" AND ", "(", ")", " = ", " != ", " > ", " >= ", " < ", " <= ", " LIKE ",
   " NOT LIKE ", " || '%'", " IN (", " NOT IN (", ", ", " IS NULL",
   " IS NOT NULL", " OR ", " ", "AND", "OR"}

ChunkColumns ==
  {Chars("chunk_index"), Chars("doc_type"), Chars("repo_id"), Chars("repo_url"),
   Chars("path"), Chars("lang"), Chars("item_url"), Chars("enrichment_status")}
DocumentColumns ==
  {Chars("ingested_at"), Chars("updated_at"), Chars("last_seen"),
   Chars("mime_type")}

\* C14: in the SQL fragment of every filter that compiles, DSL or legacy,
\* each piece is literal SQL text of the compiler, a placeholder, or a
\* column of the allow-list (for the DSL under the alias bound to the
\* column, for the legacy shape under the alias passed by the calling
\* code); the parameters are values of the filter
C14_InjectionSafe ==
  Compiled =>
    /\ \A i \in 1..Len(flt.out.sql) :
         LET tok == flt.out.sql[i]
         IN \/ tok.t = "sql" /\ tok.s \in SqlText
            \/ tok.t = "param" /\ tok.n > flt.paramIndexOffset
            \/ /\ tok.t = "col"
               /\ IF IsDsl(flt.filter)
                    THEN \/ tok.alias = "c"
                            /\ tok.column \in ChunkColumns \cup {Chars("created_at")}
                         \/ tok.alias = "d" /\ tok.column \in DocumentColumns
                    ELSE tok.alias = flt.tableAlias /\ tok.column \in ChunkColumns
    /\ \A i \in 1..Len(flt.out.sql) :
         flt.out.sql[i].t = "sql" => flt.out.sql[i].s # INJECTION

\* a legacy filter with a must_not list compiled under the alias "chunks"
\* although it carries the injection text as a value: the text went to the
\* parameters
C14_Witness ==
  /\ Compiled
  /\ Len(flt.out.sql) > 0
  /\ \E i \in 1..Len(flt.out.params) : flt.out.params[i] = INJECTION
  /\ IsLegacy(flt.filter)
  /\ "must_not" \in KeysOf(flt.filter)
  /\ flt.tableAlias = "chunks"

\* the values a condition carries, by operator
CondValues(cond) ==
  IF cond.op \in {"isNull", "isNotNull"} THEN <<>>
  ELSE IF cond.op \in {"in", "notIn"} THEN cond.values.items
  ELSE IF cond.op \in {"between", "notBetween"}
    THEN <<cond.range.low, cond.range.high>>
  ELSE <<cond.value>>

RECURSIVE AllValues(_)
AllValues(conds) ==
  IF conds = <<>> THEN <<>> ELSE CondValues(Head(conds)) \o AllValues(Tail(conds))

IsParam(tok) == tok.t = "param"

DocTypeOrLang ==
  DslFilter(<<ValueCond("docType", "eq", "code"), ValueCond("lang", "eq", "ts")>>,
            "or", FALSE)

\* C15: for a DSL filter compiled with offset k whose conditions carry m
\* values, the placeholders of the fragment are $k+1 .. $k+m, each once and
\* in condition order, and the parameters are those m values in the same
\* order; docType eq code OR lang eq ts with offset 0 gives
\* " AND (c.doc_type = $1 OR c.lang = $2)" with parameters code, ts
C15_PlaceholderOrder ==
  (Compiled /\ IsDsl(flt.filter)) =>
    LET placeholders == SelectSeq(flt.out.sql, IsParam)
        values == AllValues(EntryOf(flt.filter, "conditions").conds)
    IN /\ flt.out.params = values
       /\ Len(placeholders) = Len(values)
       /\ \A i \in 1..Len(placeholders) :
            placeholders[i].n = flt.paramIndexOffset + i
       /\ (flt.filter = DocTypeOrLang /\ flt.paramIndexOffset = 0) =>
            /\ flt.out.sql =
                 <<Sql(" AND "), Sql("("), Col("c", Chars("doc_type")), Sql(" = "),
                   Param(1), Sql(" "), Sql("OR"), Sql(" "),
                   Col("c", Chars("lang")), Sql(" = "),
                   Param(2), Sql(")")>>
            /\ flt.out.params = <<"code", "ts">>

\* three conditions with one, two and two values compiled from offset 4
C15_Witness ==
  /\ Compiled
  /\ IsDsl(flt.filter)
  /\ flt.paramIndexOffset = 4
  /\ Len(flt.out.params) = 5
  /\ Len(EntryOf(flt.filter, "conditions").conds) = 3
  /\ flt.out.sql[Len(flt.out.sql) - 1] = Param(9)

\* the defects of a DSL filter
DefectiveCond(cond) ==
  \/ cond.field \notin FIELD_NAMES
  \/ /\ cond.field \in FIELD_NAMES
     /\ \/ cond.op \notin TEMPORAL_OPS
        \/ cond.op \notin FIELD_DEFS[cond.field].allowedOps
        \/ cond.alias \notin {UNDEFINED, FIELD_DEFS[cond.field].tableAlias}
  \/ cond.op \in {"in", "notIn"} /\ (~cond.values.isArray \/ cond.values.items = <<>>)
  \/ /\ cond.op \in {"between", "notBetween"}
     /\ (~cond.range.present \/ cond.range.low = UNDEFINED
         \/ cond.range.high = UNDEFINED)

DefectiveDsl(filter) ==
  \/ KeysOf(filter) \ {"conditions", "combine"} # {}
  \/ "combine" \in KeysOf(filter) /\ EntryOf(filter, "combine").value \notin {"and", "or"}
  \/ \E i \in 1..Len(EntryOf(filter, "conditions").conds) :
       DefectiveCond(EntryOf(filter, "conditions").conds[i])

\* C16: a DSL filter with an unknown field, an operator not allowed for
\* the field, an alias other than the field's, an empty in/notIn list,
\* missing between bounds, an invalid combine, an unknown operator or a
\* legacy key next to `conditions` makes translateFilter throw a
\* FilterValidationError with statusCode 400, and no SQL is returned
C16_InvalidDslRejected ==
  (flt.pc = "done" /\ IsDsl(flt.filter) /\ DefectiveDsl(flt.filter)) =>
    /\ ~flt.out.ok
    /\ flt.out.name = "FilterValidationError"
    /\ flt.out.statusCode = 400

\* a filter of several conditions rejected for an operator that its field
\* does not allow
C16_Witness ==
  /\ flt.pc = "done"
  /\ IsDsl(flt.filter)
  /\ ~flt.out.ok
  /\ flt.out.message = "Operator not allowed for field"
  /\ \E i \in 1..Len(EntryOf(flt.filter, "conditions").conds) :
       LET cond == EntryOf(flt.filter, "conditions").conds[i]
       IN cond.field = "docType" /\ cond.op = "gt"
  /\ Len(EntryOf(flt.filter, "conditions").conds) > 1

\* the keys of a legacy filter that name a column, must / must_not lists
\* included
RECURSIVE ColumnKeys(_)
ColumnKeys(entries) ==
  IF entries = <<>> THEN {}
  ELSE (IF Head(entries).key \in {"must", "must_not"}
          THEN {Head(entries).conds[i].key : i \in 1..Len(Head(entries).conds)}
          ELSE {Head(entries).key})
       \cup ColumnKeys(Tail(entries))

LegacyAllowedKeys ==
  {"docType", "repoId", "ChunkIndex", "doc_type", "path"}

\* C17: a legacy filter naming a key outside the allow-list is rejected
\* with a FilterValidationError carrying HTTP status 400
C17_LegacyBadKeyIs400 ==
  (flt.pc = "done" /\ IsLegacy(flt.filter)
     /\ ColumnKeys(flt.filter.entries) \ LegacyAllowedKeys # {}) =>
    /\ ~flt.out.ok
    /\ flt.out.name = "FilterValidationError"
    /\ flt.out.statusCode = 400

\* ===================================================================
\* The URL fetcher (url-fetch.ts): fetchSingleUrl, one step per await.
\* Time is counted in milliseconds since the fetch of the input URL began.
\* ===================================================================
FetchTickMs == 10000
MaxFetchMs == 60000

FETCH_TIMEOUT_MS == 30000
MAX_RESPONSE_BYTES == 10485760
MAX_REDIRECTS == 5

Protocols == {"http:", "https:", "ftp:"}
Hosts == {"public", "private"}
Paths == {"/a", "/b"}
Urls == [proto : Protocols, host : Hosts, path : Paths]
Url(proto, host, path) == [proto |-> proto, host |-> host, path |-> path]

\* the URLs handed to the fetcher
InputUrls ==
  {Url("https:", "public", "/a"), Url("http:", "public", "/a"),
   Url("http:", "private", "/a"), Url("ftp:", "public", "/a")}

\* validateUrl resolves the host and throws SsrfError for a scheme other
\* than http(s) and for a host that is denied or resolves to a private,
\* loopback or link-local address
validateUrl(url) == url.proto \in {"http:", "https:"} /\ url.host = "public"

\* the Location header of a 3xx response
Locations ==
  {[kind |-> "absent"], [kind |-> "invalid"]}
  \cup {[kind |-> "absolute", url |-> u] : u \in Urls}
  \cup {[kind |-> "relative", path |-> p] : p \in Paths}

\* new URL(location, context.currentUrl)
ResolveLocation(location, base) ==
  IF location.kind = "absolute" THEN location.url
  ELSE [base EXCEPT !.path = location.path]

\* Content-Length of a response and the sizes of the pieces of its body
ContentLengths == {NULL, MAX_RESPONSE_BYTES, MAX_RESPONSE_BYTES + 1}
ReadSizes == {MAX_RESPONSE_BYTES \div 2, MAX_RESPONSE_BYTES}

Responses ==
  {[status |-> 302, location |-> l] : l \in Locations}
  \cup {[status |-> 200, contentLength |-> n, hasBody |-> b] :
          n \in ContentLengths, b \in BOOLEAN}

FetchFailure(ctx, status, reason) ==
  [ctx EXCEPT !.pc = "done", !.deadline = NULL,
              !.outcome = [ok |-> FALSE, url |-> ctx.originalUrl,
                           status |-> status, reason |-> reason]]

FetchSuccess(ctx, status) ==
  [ctx EXCEPT !.pc = "done", !.deadline = NULL,
              !.outcome = [ok |-> TRUE, url |-> ctx.originalUrl,
                           resolvedUrl |-> ctx.currentUrl, status |-> status,
                           size |-> ctx.totalSize]]

InitFetch ==
  /\ now = 0
  /\ tasks = <<>>
  /\ chunks = [c \in Chunks |->
       [enrichment_status |-> "none", tier3_meta |-> EmptyMeta,
        tier3_error |-> NoError]]
  /\ docs = [d \in Documents |-> [summary_medium |-> "null"]]
  /\ entities = {}
  /\ claiming = [w \in Workers |-> NoClaim]
  /\ held = [w \in Workers |-> {}]
  /\ nclaims = 0
  /\ urlBatch = NoBatch
  /\ embedCall = NoEmbed
  /\ ingest = NoIngest
  /\ ClientsIdle
  /\ enq = NoEnqueue
  /\ cleared = NoClear
  /\ flt = NoFilter
  /\ fetch = NoFetch

\* fetchSingleUrl({ originalUrl: url, currentUrl: url, redirectCount: 0 })
FetchStart(url) ==
  /\ fetch.pc = "idle"
  /\ fetch' = [pc |-> "validate", originalUrl |-> url, currentUrl |-> url,
               redirectCount |-> 0, elapsed |-> 0, deadline |-> NULL,
               validated |-> FALSE, requests |-> 0, requested |-> FALSE,
               status |-> NULL, totalSize |-> 0, cancelled |-> FALSE,
               outcome |-> [ok |-> FALSE, reason |-> "none"]]
  /\ UNCHANGED <<now, tasks, chunks, docs, entities, claiming, held, nclaims,
                 enq, cleared, flt,
                 urlBatch, embedCall, ingest,
                 ingestReq, qry, textFilter, flush, urlCheck>>

\* await validateUrl(context.currentUrl): an SsrfError ends the fetch
FetchValidate ==
  /\ fetch.pc = "validate"
  /\ fetch' = IF validateUrl(fetch.currentUrl)
                THEN [fetch EXCEPT !.pc = "send", !.validated = TRUE]
                ELSE FetchFailure(fetch, NULL, "ssrf_blocked")
  /\ UNCHANGED <<now, tasks, chunks, docs, entities, claiming, held, nclaims,
                 enq, cleared, flt,
                 urlBatch, embedCall, ingest,
                 ingestReq, qry, textFilter, flush, urlCheck>>

\* the timer of the hop is armed and fetch(context.currentUrl, { redirect:
\* "manual" }) is issued.  requested says whether the URL requested had
\* passed validation since it became the current URL
FetchSend ==
  /\ fetch.pc = "send"
  /\ fetch' = [fetch EXCEPT !.pc = "request",
                            !.deadline = fetch.elapsed + FETCH_TIMEOUT_MS,
                            !.requests = @ + 1,
                            !.requested = fetch.validated]
  /\ UNCHANGED <<now, tasks, chunks, docs, entities, claiming, held, nclaims,
                 enq, cleared, flt,
                 urlBatch, embedCall, ingest,
                 ingestReq, qry, textFilter, flush, urlCheck>>

FetchFollowUnchecked(ctx, redirectUrl) ==
  [ctx EXCEPT !.pc = "send", !.currentUrl = redirectUrl,
              !.redirectCount = @ + 1, !.deadline = NULL, !.validated = FALSE]

\* return fetchSingleUrl({ originalUrl, currentUrl: redirectUrl,
\* redirectCount: context.redirectCount + 1 })
FetchFollow(ctx, redirectUrl) ==
  [ctx EXCEPT !.pc = "validate", !.currentUrl = redirectUrl,
              !.redirectCount = @ + 1, !.deadline = NULL, !.validated = FALSE]

RedirectLimitOffByOne(ctx) == ctx.redirectCount > MAX_REDIRECTS

\* context.redirectCount >= MAX_REDIRECTS
RedirectLimit(ctx) == ctx.redirectCount >= MAX_REDIRECTS

\* redirectProto !== "http:" && redirectProto !== "https:"
ForeignScheme(redirectUrl) ==
  redirectUrl.proto # "http:" /\ redirectUrl.proto # "https:"

DowngradeUnchecked(currentUrl, redirectUrl) == FALSE

\* currentProto === "https:" && redirectProto !== "https:"
Downgrade(currentUrl, redirectUrl) ==
  currentUrl.proto = "https:" /\ redirectUrl.proto # "https:"

\* the handling of a 3xx response
FetchRedirect(ctx, response) ==
  LET location == response.location
      redirectUrl == ResolveLocation(location, ctx.currentUrl)
  IN IF location.kind = "absent"
       THEN FetchFailure(ctx, response.status, "fetch_failed")
     ELSE IF RedirectLimit(ctx)
       THEN FetchFailure(ctx, response.status, "redirect_limit")
     ELSE IF location.kind = "invalid"
       THEN FetchFailure(ctx, response.status, "fetch_failed")
     ELSE IF ForeignScheme(redirectUrl)
       THEN FetchFailure(ctx, response.status, "ssrf_blocked")
     ELSE IF Downgrade(ctx.currentUrl, redirectUrl)
       THEN FetchFailure(ctx, response.status, "ssrf_blocked")
     ELSE FetchFollow(ctx, redirectUrl)

OverLimitTenfold(totalSize) == totalSize > 10 * MAX_RESPONSE_BYTES

\* parseInt(contentLength, 10) > MAX_RESPONSE_BYTES, totalSize >
\* MAX_RESPONSE_BYTES
OverLimit(totalSize) == totalSize > MAX_RESPONSE_BYTES

\* the response headers arrive before the timer fires: clearTimeout, then
\* redirect handling, the Content-Length check, and the body reader
FetchRespond(response) ==
  /\ fetch.pc = "request"
  /\ fetch.elapsed < fetch.deadline
  /\ LET ctx == [fetch EXCEPT !.deadline = NULL, !.status = response.status]
     IN fetch' =
          IF response.status >= 300 /\ response.status < 400
            THEN FetchRedirect(ctx, response)
          ELSE IF response.contentLength # NULL
                  /\ OverLimit(response.contentLength)
            THEN FetchFailure(ctx, response.status, "too_large")
          ELSE IF response.hasBody THEN [ctx EXCEPT !.pc = "body"]
          ELSE FetchSuccess(ctx, response.status)
  /\ UNCHANGED <<now, tasks, chunks, docs, entities, claiming, held, nclaims,
                 enq, cleared, flt,
                 urlBatch, embedCall, ingest,
                 ingestReq, qry, textFilter, flush, urlCheck>>

\* fetch rejects for a reason other than the abort
FetchNetworkError ==
  /\ fetch.pc = "request"
  /\ fetch.elapsed < fetch.deadline
  /\ fetch' = FetchFailure(fetch, NULL, "fetch_failed")
  /\ UNCHANGED <<now, tasks, chunks, docs, entities, claiming, held, nclaims,
                 enq, cleared, flt,
                 urlBatch, embedCall, ingest,
                 ingestReq, qry, textFilter, flush, urlCheck>>

\* the timer of the hop fires: controller.abort(), fetch rejects with
\* AbortError
FetchAbort ==
  /\ fetch.pc = "request"
  /\ fetch.elapsed >= fetch.deadline
  /\ fetch' = FetchFailure(fetch, NULL, "timeout")
  /\ UNCHANGED <<now, tasks, chunks, docs, entities, claiming, held, nclaims,
                 enq, cleared, flt,
                 urlBatch, embedCall, ingest,
                 ingestReq, qry, textFilter, flush, urlCheck>>

\* reader.read() yields a piece of the body
FetchRead(size) ==
  /\ fetch.pc = "body"
  /\ fetch' = IF OverLimit(fetch.totalSize + size)
                THEN FetchFailure([fetch EXCEPT !.totalSize = @ + size,
                                                !.cancelled = TRUE],
                                  fetch.status, "too_large")
                ELSE [fetch EXCEPT !.totalSize = @ + size]
  /\ UNCHANGED <<now, tasks, chunks, docs, entities, claiming, held, nclaims,
                 enq, cleared, flt,
                 urlBatch, embedCall, ingest,
                 ingestReq, qry, textFilter, flush, urlCheck>>

\* reader.read() reports done
FetchReadDone ==
  /\ fetch.pc = "body"
  /\ fetch' = FetchSuccess(fetch, fetch.status)
  /\ UNCHANGED <<now, tasks, chunks, docs, entities, claiming, held, nclaims,
                 enq, cleared, flt,
                 urlBatch, embedCall, ingest,
                 ingestReq, qry, textFilter, flush, urlCheck>>

\* reader.read() rejects
FetchReadError ==
  /\ fetch.pc = "body"
  /\ fetch' = FetchFailure(fetch, NULL, "fetch_failed")
  /\ UNCHANGED <<now, tasks, chunks, docs, entities, claiming, held, nclaims,
                 enq, cleared, flt,
                 urlBatch, embedCall, ingest,
                 ingestReq, qry, textFilter, flush, urlCheck>>

\* time passes while the fetcher awaits the response or the body; an armed
\* timer fires no later than its deadline
FetchTick ==
  /\ fetch.pc \in {"request", "body"}
  /\ fetch.elapsed + FetchTickMs <= MaxFetchMs
  /\ fetch.deadline # NULL => fetch.elapsed < fetch.deadline
  /\ fetch' = [fetch EXCEPT !.elapsed =
                 IF fetch.deadline # NULL
                   THEN Min(fetch.elapsed + FetchTickMs, fetch.deadline)
                   ELSE fetch.elapsed + FetchTickMs]
  /\ UNCHANGED <<now, tasks, chunks, docs, entities, claiming, held, nclaims,
                 enq, cleared, flt,
                 urlBatch, embedCall, ingest,
                 ingestReq, qry, textFilter, flush, urlCheck>>

NextFetch ==
  \/ \E url \in InputUrls : FetchStart(url)
  \/ FetchValidate
  \/ FetchSend
  \/ \E response \in Responses : FetchRespond(response)
  \/ FetchNetworkError
  \/ FetchAbort
  \/ \E size \in ReadSizes : FetchRead(size)
  \/ FetchReadDone
  \/ FetchReadError
  \/ FetchTick

SpecFetch == InitFetch /\ [][NextFetch]_vars

\* C18: every URL the fetcher requests, the input URL and each redirect
\* target alike, has passed validateUrl since it became the current URL, and
\* a hop whose URL fails validation ends the fetch of the input URL with
\* reason ssrf_blocked and without a request.
C18_EveryHopValidated ==
  [][/\ fetch'.pc = "request" =>
          fetch'.requested /\ validateUrl(fetch'.currentUrl)
     /\ (fetch.pc = "validate" /\ fetch'.pc # "validate"
           /\ ~validateUrl(fetch.currentUrl)) =>
          /\ fetch'.pc = "done"
          /\ fetch'.outcome = [ok |-> FALSE, url |-> fetch.originalUrl,
                               status |-> NULL, reason |-> "ssrf_blocked"]
          /\ fetch'.requests = fetch.requests]_vars

\* a redirect to a private host was stopped by the validation of its hop
C18_Witness ==
  /\ fetch.pc = "done"
  /\ fetch.redirectCount >= 1
  /\ fetch.requests = fetch.redirectCount
  /\ ~validateUrl(fetch.currentUrl)
  /\ fetch.outcome.reason = "ssrf_blocked"

\* C19: a fetch follows at most MAX_REDIRECTS = 5 redirects, hence sends at
\* most six requests, and a further redirect answered to the sixth request
\* ends the fetch with reason redirect_limit instead of another request.
C19_RedirectLimit ==
  [][/\ fetch'.pc # "idle" =>
          /\ fetch'.redirectCount <= MAX_REDIRECTS
          /\ fetch'.requests <= fetch'.redirectCount + 1
     /\ \A response \in Responses :
          (/\ response.status = 302
           /\ response.location.kind # "absent"
           /\ fetch.pc = "request"
           /\ fetch.redirectCount = MAX_REDIRECTS
           /\ FetchRespond(response)) =>
            /\ fetch'.pc = "done"
            /\ fetch'.outcome.reason = "redirect_limit"
            /\ fetch'.requests = fetch.requests]_vars

\* five redirects were followed and the sixth was refused
C19_Witness ==
  /\ fetch.pc = "done"
  /\ fetch.redirectCount = MAX_REDIRECTS
  /\ fetch.requests = MAX_REDIRECTS + 1
  /\ fetch.outcome.reason = "redirect_limit"

\* C20: the fetch of one URL, all its redirect hops and the reading of the
\* body included, never lasts longer than FETCH_TIMEOUT_MS.
C20_TotalTimeout ==
  fetch.pc # "idle" => fetch.elapsed <= FETCH_TIMEOUT_MS

\* C21: a redirect whose target has a scheme other than http or https, and
\* a redirect from an https URL to a target that is not https, is never
\* followed: the response ends the fetch of the input URL with an error and
\* no hop of a fetch leaves https or the http(s) schemes.
C21_NoDowngradeNoForeignScheme ==
  [][/\ \A response \in Responses :
          (/\ fetch.pc = "request"
           /\ response.status = 302
           /\ response.location.kind \in {"absolute", "relative"}
           /\ LET target == ResolveLocation(response.location, fetch.currentUrl)
              IN \/ target.proto \notin {"http:", "https:"}
                 \/ fetch.currentUrl.proto = "https:" /\ target.proto = "http:"
           /\ FetchRespond(response)) =>
            /\ fetch'.pc = "done"
            /\ ~fetch'.outcome.ok
            /\ fetch'.outcome.url = fetch.originalUrl
            /\ fetch'.outcome.reason \in {"ssrf_blocked", "redirect_limit"}
            /\ fetch'.currentUrl = fetch.currentUrl
     /\ (fetch.pc = "request" /\ fetch'.pc \notin {"idle", "done"}
           /\ fetch'.currentUrl # fetch.currentUrl) =>
          /\ fetch'.currentUrl.proto \in {"http:", "https:"}
          /\ fetch.currentUrl.proto = "https:" =>
               fetch'.currentUrl.proto = "https:"]_vars

\* a redirect answered to an https hop was refused as ssrf_blocked
C21_Witness ==
  /\ fetch.pc = "done"
  /\ fetch.currentUrl.proto = "https:"
  /\ fetch.outcome.status = 302
  /\ fetch.outcome.reason = "ssrf_blocked"

\* C22: no successful result carries more than MAX_RESPONSE_BYTES; a
\* response announcing a larger Content-Length, and a body whose pieces add
\* up to more, end the fetch with too_large, the latter with the reader
\* cancelled by the very read that crossed the limit.
C22_BodyCap ==
  [][/\ (fetch'.pc = "done" /\ fetch'.outcome.ok) =>
          fetch'.outcome.size <= MAX_RESPONSE_BYTES
     /\ fetch'.pc = "body" => fetch'.totalSize <= MAX_RESPONSE_BYTES
     /\ \A response \in Responses :
          (/\ response.status = 200
           /\ response.contentLength # NULL
           /\ response.contentLength > MAX_RESPONSE_BYTES
           /\ FetchRespond(response)) =>
            /\ fetch'.pc = "done"
            /\ ~fetch'.outcome.ok
            /\ fetch'.outcome.reason = "too_large"
     /\ \A size \in ReadSizes :
          (/\ fetch.pc = "body"
           /\ fetch.totalSize + size > MAX_RESPONSE_BYTES
           /\ FetchRead(size)) =>
            /\ fetch'.pc = "done"
            /\ ~fetch'.outcome.ok
            /\ fetch'.outcome.reason = "too_large"
            /\ fetch'.cancelled]_vars

\* a body was cut off by the read that took it over the limit
C22_Witness ==
  /\ fetch.pc = "done"
  /\ fetch.cancelled
  /\ fetch.totalSize > MAX_RESPONSE_BYTES
  /\ fetch.outcome.reason = "too_large"

\* ===================================================================
\* fetchUrls (url-fetch.ts): a batch of URLs fetched by a pool of workers.
\* URL k stands for the k-th distinct URL of the batch; a fetch in progress
\* is one call of fetchSingleUrl that has not settled.
\* ===================================================================
MaxBatchLen == 6
MaxRepeatLen == 3

MAX_CONCURRENT_FETCHES == 5

REDIRECTED == 0

\* the batches handed to fetchUrls, the distinct URLs numbered in order of
\* appearance: up to MaxBatchLen URLs without repetition, and every pattern
\* of repetition among up to MaxRepeatLen URLs
RECURSIVE Distinct(_)
Distinct(urls) ==
  IF urls = <<>> THEN {}
  ELSE {urls[Len(urls)]} \cup Distinct(SubSeq(urls, 1, Len(urls) - 1))

RECURSIVE CanonicalBatches(_)
CanonicalBatches(n) ==
  IF n = 0 THEN {<<>>}
  ELSE UNION {{Append(urls, u) : u \in 1..(Cardinality(Distinct(urls)) + 1)} :
                urls \in CanonicalBatches(n - 1)}

Batches ==
  {[i \in 1..n |-> i] : n \in 0..MaxBatchLen}
  \cup UNION {CanonicalBatches(n) : n \in 0..MaxRepeatLen}

DedupNone(urls) == urls

\* Array.from(new Set(urls)): the first occurrence of each URL, in order
RECURSIVE Dedup(_)
Dedup(urls) ==
  IF urls = <<>> THEN <<>>
  ELSE LET front == Dedup(SubSeq(urls, 1, Len(urls) - 1))
           last == urls[Len(urls)]
       IN IF \E i \in 1..Len(front) : front[i] = last
            THEN front ELSE Append(front, last)

WorkerCountUncapped(concurrency, n) == n

\* Math.min(concurrency, items.length)
WorkerCount(concurrency, n) == Min(concurrency, n)

\* how fetchSingleUrl settles for url: a result carrying the input URL,
\* resolved at a redirect target; a FetchError carrying the input URL; or
\* an error without reason, rethrown from validateUrl
Settlements(url) ==
  {[kind |-> "result", url |-> url, resolvedUrl |-> REDIRECTED],
   [kind |-> "error", url |-> url, status |-> NULL, reason |-> "ssrf_blocked"],
   [kind |-> "thrown"]}

InitBatch ==
  /\ now = 0
  /\ tasks = <<>>
  /\ chunks = [c \in Chunks |->
       [enrichment_status |-> "none", tier3_meta |-> EmptyMeta,
        tier3_error |-> NoError]]
  /\ docs = [d \in Documents |-> [summary_medium |-> "null"]]
  /\ entities = {}
  /\ claiming = [w \in Workers |-> NoClaim]
  /\ held = [w \in Workers |-> {}]
  /\ nclaims = 0
  /\ enq = NoEnqueue
  /\ cleared = NoClear
  /\ flt = NoFilter
  /\ fetch = NoFetch
  /\ embedCall = NoEmbed
  /\ ingest = NoIngest
  /\ ClientsIdle
  /\ urlBatch = NoBatch

\* worker(): index = nextIndex++; the worker ends when the items are used
\* up, else fn(items[index]) starts the fetch of that item.  A worker holds
\* the position (from 1) of the item it is fetching, 0 when it has ended;
\* started counts the calls of fetchSingleUrl per input URL
TakeNext(b, w) ==
  LET index == b.nextIndex
  IN IF index >= Len(b.uniqueUrls)
       THEN [b EXCEPT !.nextIndex = index + 1, !.workers[w] = 0]
       ELSE [b EXCEPT !.nextIndex = index + 1, !.workers[w] = index + 1,
                      !.started[b.uniqueUrls[index + 1]] = @ + 1]

RECURSIVE StartWorkers(_, _)
StartWorkers(b, k) ==
  IF k = 0 THEN b ELSE TakeNext(StartWorkers(b, k - 1), k)

\* fetchUrls(urls) up to its await: the URLs are de-duplicated and
\* fetchWithConcurrency starts its workers, each of which takes an item
fetchUrls(urls) ==
  /\ urlBatch.pc = "idle"
  /\ LET uniqueUrls == Dedup(urls)
         n == WorkerCount(MAX_CONCURRENT_FETCHES, Len(uniqueUrls))
     IN urlBatch' =
          StartWorkers([pc |-> "running", urls |-> urls,
                        uniqueUrls |-> uniqueUrls, nextIndex |-> 0,
                        workers |-> [w \in 1..n |-> 0],
                        started |-> [u \in 1..MaxBatchLen |-> 0],
                        results |-> <<>>, errors |-> <<>>], n)
  /\ UNCHANGED <<now, tasks, chunks, docs, entities, claiming, held, nclaims,
                 enq, cleared, flt, fetch, embedCall, ingest,
                 ingestReq, qry, textFilter, flush, urlCheck>>

\* the fetch of worker w settles: results.set(url, result) or errors.push,
\* then the worker takes the next item
WorkerSettles(w, settlement) ==
  /\ urlBatch.pc = "running"
  /\ w \in DOMAIN urlBatch.workers
  /\ urlBatch.workers[w] # 0
  /\ LET url == urlBatch.uniqueUrls[urlBatch.workers[w]]
     IN /\ settlement \in Settlements(url)
        /\ urlBatch' =
             TakeNext(
               IF settlement.kind = "result"
                 THEN [urlBatch EXCEPT !.results =
                         (url :> [url |-> settlement.url,
                                  resolvedUrl |-> settlement.resolvedUrl]) @@ @]
               ELSE IF settlement.kind = "error"
                 THEN [urlBatch EXCEPT !.errors =
                         Append(@, [url |-> settlement.url,
                                    status |-> settlement.status,
                                    reason |-> settlement.reason])]
               ELSE [urlBatch EXCEPT !.errors =
                       Append(@, [url |-> url, status |-> NULL,
                                  reason |-> "fetch_failed"])],
               w)
  /\ UNCHANGED <<now, tasks, chunks, docs, entities, claiming, held, nclaims,
                 enq, cleared, flt, fetch, embedCall, ingest,
                 ingestReq, qry, textFilter, flush, urlCheck>>

\* await Promise.all(workers) resolves: return { results, errors }
BatchReturns ==
  /\ urlBatch.pc = "running"
  /\ \A w \in DOMAIN urlBatch.workers : urlBatch.workers[w] = 0
  /\ urlBatch' = [urlBatch EXCEPT !.pc = "returned"]
  /\ UNCHANGED <<now, tasks, chunks, docs, entities, claiming, held, nclaims,
                 enq, cleared, flt, fetch, embedCall, ingest,
                 ingestReq, qry, textFilter, flush, urlCheck>>

NextBatch ==
  \/ \E urls \in Batches : fetchUrls(urls)
  \/ \E w \in 1..MaxBatchLen :
       \E settlement \in UNION {Settlements(u) : u \in 1..MaxBatchLen} :
         WorkerSettles(w, settlement)
  \/ BatchReturns

SpecBatch == InitBatch /\ [][NextBatch]_vars

\* the fetches in progress: the workers that hold an item
InProgress == {w \in DOMAIN urlBatch.workers : urlBatch.workers[w] # 0}

\* C23: whatever the number of input URLs, at most MAX_CONCURRENT_FETCHES
\* = 5 fetches of a batch are in progress at any instant.
C23_AtMostFiveInProgress ==
  urlBatch.pc # "idle" =>
    /\ Cardinality(InProgress) <= MAX_CONCURRENT_FETCHES
    /\ \A v, w \in InProgress :
         v # w => urlBatch.workers[v] # urlBatch.workers[w]

\* five fetches are in progress and a sixth URL waits for a worker
C23_Witness ==
  /\ urlBatch.pc = "running"
  /\ Cardinality(InProgress) = MAX_CONCURRENT_FETCHES
  /\ urlBatch.nextIndex < Len(urlBatch.uniqueUrls)

ErrorsFor(url) ==
  {i \in 1..Len(urlBatch.errors) : urlBatch.errors[i].url = url}

\* C24: every distinct input URL is fetched once and not more, and when
\* fetchUrls returns each of them is either a key of results, whose result
\* carries that URL, or the url of exactly one entry of errors, never both;
\* results and errors name no other URL.
C24_EachUrlOnceInOnePlace ==
  urlBatch.pc # "idle" =>
    /\ \A u \in 1..MaxBatchLen : urlBatch.started[u] <= 1
    /\ urlBatch.pc = "returned" =>
         /\ \A u \in Distinct(urlBatch.urls) :
              /\ urlBatch.started[u] = 1
              /\ \/ u \in DOMAIN urlBatch.results /\ ErrorsFor(u) = {}
                 \/ u \notin DOMAIN urlBatch.results
                      /\ Cardinality(ErrorsFor(u)) = 1
         /\ \A u \in DOMAIN urlBatch.results :
              u \in Distinct(urlBatch.urls) /\ urlBatch.results[u].url = u
         /\ \A i \in 1..Len(urlBatch.errors) :
              urlBatch.errors[i].url \in Distinct(urlBatch.urls)

\* a batch that repeats a URL has returned with a redirected result and an
\* error
C24_Witness ==
  /\ urlBatch.pc = "returned"
  /\ Len(urlBatch.urls) > Cardinality(Distinct(urlBatch.urls))
  /\ \E u \in DOMAIN urlBatch.results :
       urlBatch.results[u].resolvedUrl # u
  /\ urlBatch.errors # <<>>

\* ===================================================================
\* The embedding client (embeddings.ts, embeddings-ollama.ts) with the
\* Ollama provider and OLLAMA_URL set.  A text is known by its id and by
\* what the backend answers to it when it answers at all.
\* ===================================================================
MaxTexts == 3
VectorDim == 2

DEFAULT_CONCURRENCY == 10

EMPTY == [isArray |-> FALSE, items |-> <<>>]

\* the items of a JSON array: numbers, among them those that overflow to
\* Infinity when parsed, and strings
Num(n) == [type |-> "number", finite |-> TRUE, value |-> n]
Infinite == [type |-> "number", finite |-> FALSE, value |-> 0]
Str == [type |-> "string", finite |-> FALSE, value |-> 0]

ReplyKinds == {"short", "infinite", "string", "missing"}

Text(id, reply) == [id |-> id, reply |-> reply]

\* json.embedding of the reply to a text
Embedding(text) ==
  CASE text.reply = "embedding" ->
         [isArray |-> TRUE, items |-> [i \in 1..VectorDim |-> Num(text.id)]]
    [] text.reply = "short" ->
         [isArray |-> TRUE, items |-> [i \in 1..(VectorDim - 1) |-> Num(text.id)]]
    [] text.reply = "infinite" ->
         [isArray |-> TRUE,
          items |-> [i \in 1..VectorDim |-> IF i = 1 THEN Infinite ELSE Num(text.id)]]
    [] text.reply = "string" ->
         [isArray |-> TRUE,
          items |-> [i \in 1..VectorDim |-> IF i = 1 THEN Str ELSE Num(text.id)]]
    [] OTHER -> EMPTY

\* the texts of short calls, and one call longer than the default
\* concurrency
ShortTexts ==
  {Text(id, "embedding") : id \in 1..2} \cup {Text(3, r) : r \in ReplyKinds}
TextLists ==
  UNION {[1..n -> ShortTexts] : n \in 0..MaxTexts}
  \cup {[p \in 1..(DEFAULT_CONCURRENCY + 1) |-> Text(p, "embedding")]}
Concurrencies == {UNDEFINED, "0", "1", "2"}

\* the concurrency argument as a number
ConcurrencyOf(arg) ==
  CASE arg = UNDEFINED -> DEFAULT_CONCURRENCY
    [] arg = "0" -> 0
    [] arg = "1" -> 1
    [] OTHER -> 2

EmbedError(message, code) == [message |-> message, code |-> code]

\* Array.isArray(value) && !value.some((item) => typeof item !== "number")
IsEmbeddingArray(value) ==
  value.isArray /\ \A i \in 1..Len(value.items) : value.items[i].type = "number"

\* how one request to the backend settles
RequestOutcomes == {"ok", "not_ok", "rejected"}

\* embedWithOllama from the settling of its fetch on: the vector, or the
\* error thrown
embedWithOllama(text, outcome) ==
  IF outcome = "rejected"
    THEN [ok |-> FALSE, error |-> EmbedError("fetch failed", UNDEFINED)]
  ELSE IF outcome = "not_ok"
    THEN [ok |-> FALSE,
          error |-> EmbedError("Ollama embeddings failed",
                               "UPSTREAM_SERVICE_ERROR")]
  ELSE IF ~IsEmbeddingArray(Embedding(text))
    THEN [ok |-> FALSE,
          error |-> EmbedError("Invalid embedding payload from Ollama",
                               UNDEFINED)]
  ELSE [ok |-> TRUE, value |-> Embedding(text)]

InitEmbed ==
  /\ now = 0
  /\ tasks = <<>>
  /\ chunks = [c \in Chunks |->
       [enrichment_status |-> "none", tier3_meta |-> EmptyMeta,
        tier3_error |-> NoError]]
  /\ docs = [d \in Documents |-> [summary_medium |-> "null"]]
  /\ entities = {}
  /\ claiming = [w \in Workers |-> NoClaim]
  /\ held = [w \in Workers |-> {}]
  /\ nclaims = 0
  /\ enq = NoEnqueue
  /\ cleared = NoClear
  /\ flt = NoFilter
  /\ fetch = NoFetch
  /\ urlBatch = NoBatch
  /\ ingest = NoIngest
  /\ ClientsIdle
  /\ embedCall = NoEmbed

BatchEndAll(i, concurrency, n) == n

\* texts.slice(i, i + concurrency) ends before position Min(i + concurrency, n)
BatchEnd(i, concurrency, n) == Min(i + concurrency, n)

ResultIndexInBatch(i, j) == j

\* results[i + j] = batchResults[j]
ResultIndex(i, j) == i + j

\* batch.map((text) => embedOne(text)): one request per text of the batch
\* is issued.  Positions count from 1; the batch at offset i holds the
\* positions i + 1 .. BatchEnd
IssueBatch(e, i) ==
  LET end == BatchEnd(i, ConcurrencyOf(e.concurrency), Len(e.texts))
  IN [e EXCEPT !.i = i,
               !.batchResults = [j \in 1..(end - i) |-> EMPTY],
               !.waiting = (i + 1)..end,
               !.inflight = @ \cup (i + 1)..end,
               !.issued = @ + (end - i)]

\* embed(texts, concurrency) up to its first await
embed(texts, concurrency) ==
  /\ embedCall.pc = "idle"
  /\ LET e == [pc |-> "running", texts |-> texts, concurrency |-> concurrency,
               i |-> 0, batchResults |-> <<>>, waiting |-> {}, inflight |-> {},
               issued |-> 0, results |-> [p \in 1..Len(texts) |-> EMPTY],
               output |-> <<>>, error |-> EmbedError("", UNDEFINED)]
     IN embedCall' =
          IF Len(texts) = 0 THEN [e EXCEPT !.pc = "returned"]
          ELSE IF ConcurrencyOf(concurrency) < 1
            THEN [e EXCEPT !.pc = "failed",
                           !.error = EmbedError("concurrency must be a positive integer",
                                                UNDEFINED)]
          ELSE IssueBatch(e, 0)
  /\ UNCHANGED <<now, tasks, chunks, docs, entities, claiming, held, nclaims,
                 enq, cleared, flt, fetch, urlBatch, ingest,
                 ingestReq, qry, textFilter, flush, urlCheck>>

\* Promise.all resolved: the vectors of the batch are stored, and the next
\* batch is issued or the results are returned
BatchDone(e) ==
  LET n == Len(e.texts)
      size == Len(e.batchResults)
      stored == [e EXCEPT !.results =
                   [p \in 1..n |->
                      IF \E j \in 0..(size - 1) : ResultIndex(e.i, j) + 1 = p
                        THEN e.batchResults[
                               (CHOOSE j \in 0..(size - 1) :
                                  ResultIndex(e.i, j) + 1 = p) + 1]
                        ELSE e.results[p]]]
      next == e.i + ConcurrencyOf(e.concurrency)
  IN IF next < n THEN IssueBatch(stored, next)
     ELSE [stored EXCEPT !.pc = "returned", !.output = stored.results]

\* the request for the text at position p settles while embed awaits its
\* batch: a vector is kept at the text's place in the batch, an error makes
\* Promise.all reject and embed throw it at once
RequestSettles(p, outcome) ==
  /\ embedCall.pc = "running"
  /\ p \in embedCall.waiting
  /\ LET r == embedWithOllama(embedCall.texts[p], outcome)
         left == [embedCall EXCEPT !.waiting = @ \ {p}, !.inflight = @ \ {p}]
     IN embedCall' =
          IF ~r.ok THEN [left EXCEPT !.pc = "failed", !.error = r.error]
          ELSE LET kept == [left EXCEPT !.batchResults[p - embedCall.i] = r.value]
               IN IF kept.waiting = {} THEN BatchDone(kept) ELSE kept
  /\ UNCHANGED <<now, tasks, chunks, docs, entities, claiming, held, nclaims,
                 enq, cleared, flt, fetch, urlBatch, ingest,
                 ingestReq, qry, textFilter, flush, urlCheck>>

\* a request still in flight settles after embed has thrown: its outcome is
\* dropped
RequestSettlesLate(p) ==
  /\ embedCall.pc = "failed"
  /\ p \in embedCall.inflight
  /\ embedCall' = [embedCall EXCEPT !.inflight = @ \ {p}]
  /\ UNCHANGED <<now, tasks, chunks, docs, entities, claiming, held, nclaims,
                 enq, cleared, flt, fetch, urlBatch, ingest,
                 ingestReq, qry, textFilter, flush, urlCheck>>

NextEmbed ==
  \/ /\ embedCall.pc = "idle"
     /\ \E texts \in TextLists, concurrency \in Concurrencies :
          embed(texts, concurrency)
  \/ \E p \in 1..(DEFAULT_CONCURRENCY + 1), outcome \in RequestOutcomes :
       RequestSettles(p, outcome)
  \/ \E p \in 1..(DEFAULT_CONCURRENCY + 1) : RequestSettlesLate(p)

SpecEmbed == InitEmbed /\ [][NextEmbed]_vars

\* C25: a successful embed(texts, k) returns exactly Len(texts) vectors and
\* the vector at each position is the embedding the backend gave for the
\* text at that position, in whatever order the requests settled.
C25_OrderPreserved ==
  embedCall.pc = "returned" =>
    /\ Len(embedCall.output) = Len(embedCall.texts)
    /\ \A p \in 1..Len(embedCall.texts) :
         embedCall.output[p] = Embedding(embedCall.texts[p])

\* a call of several batches over different texts has returned
C25_Witness ==
  /\ embedCall.pc = "returned"
  /\ Len(embedCall.texts) > ConcurrencyOf(embedCall.concurrency)
  /\ \E p, q \in 1..Len(embedCall.texts) :
       embedCall.output[p] # embedCall.output[q]

\* C26: at most k requests of an embed call are in flight at any instant,
\* 10 when no k is given.
C26_AtMostKInFlight ==
  embedCall.pc # "idle" =>
    Cardinality(embedCall.inflight) <=
      (IF embedCall.concurrency = UNDEFINED THEN 10
       ELSE ConcurrencyOf(embedCall.concurrency))

\* ten requests are in flight and an eleventh text waits for its batch
C26_Witness ==
  /\ embedCall.pc = "running"
  /\ embedCall.concurrency = UNDEFINED
  /\ Cardinality(embedCall.inflight) = 10
  /\ Len(embedCall.texts) > 10

\* C27: an embed call that fails because one of its requests failed fails
\* with an error whose code is UPSTREAM_SERVICE_ERROR and returns no
\* vectors.
C27_FailureIsTypedUpstream ==
  (embedCall.pc = "failed" /\ embedCall.issued > 0) =>
    /\ embedCall.error.code = "UPSTREAM_SERVICE_ERROR"
    /\ embedCall.output = <<>>

\* C28: every vector a successful embed call returns is an array of
\* VectorDim finite numbers.
C28_VectorsWellShaped ==
  embedCall.pc = "returned" =>
    \A p \in 1..Len(embedCall.output) :
      LET vector == embedCall.output[p]
      IN /\ vector.isArray
         /\ Len(vector.items) = VectorDim
         /\ \A i \in 1..Len(vector.items) :
              vector.items[i].type = "number" /\ vector.items[i].finite

\* ===================================================================
\* Document identity (pg-helpers.ts: deriveIdentityKey) and the upsert of
\* the ingestion service by (collection, identity_key).  A source is the
\* sequence of the pieces of its string: scheme, "//", host, path, query,
\* fragment, as far as it has them.
\* ===================================================================
MaxIngests == 2

SPECIAL_SCHEMES == {"https:", "http:"}
OPAQUE_SCHEMES == {"file:"}
QUERIES == {"?v=1"}
FRAGMENTS == {"#top"}

\* the sources ingested
Sources ==
  {<<"https:", "//", "example.com", "/page">>,
   <<"https:", "//", "example.com", "/page", "?v=1">>,
   <<"https:", "//", "example.com", "/page", "#top">>,
   <<"https:", "//", "example.com", "/page", "?v=1", "#top">>,
   <<"https:", "//", "EXAMPLE.com", "/page">>,
   <<"https:", "//", "example.com", "/other">>,
   <<"https:", "//", "example.com">>,
   <<"https:", "//", "example.com", "/">>,
   <<"http:", "//", "example.com", "/page">>,
   <<"file:", "//", "/page">>,
   <<"file:", "//", "/page", "?v=1">>,
   <<"docs/readme.md">>,
   <<"docs/readme.md", "?v=1">>,
   <<"docs/readme.md", "#top">>}

\* the host of a URL as the parser serialises it
HostToLowerCase(host) == IF host = "EXAMPLE.com" THEN "example.com" ELSE host

\* new URL(source) succeeds: the source begins with a scheme
IsUrl(source) ==
  source # <<>> /\ source[1] \in SPECIAL_SCHEMES \cup OPAQUE_SCHEMES

\* url.origin: scheme and host of an http(s) URL, "null" for other schemes
Origin(source) ==
  IF source[1] \in SPECIAL_SCHEMES
    THEN <<source[1], "//", HostToLowerCase(source[3])>>
    ELSE <<"null">>

\* url.pathname: the path, "/" for an http(s) URL without one
Pathname(source) ==
  LET at == IF source[1] \in SPECIAL_SCHEMES THEN 4 ELSE 3
  IN IF Len(source) >= at /\ source[at] \notin QUERIES \cup FRAGMENTS
       THEN <<source[at]>>
     ELSE IF source[1] \in SPECIAL_SCHEMES THEN <<"/">> ELSE <<>>

deriveIdentityKeyVerbatim(source) == source

\* `${url.origin}${url.pathname}`, or the source itself when it is no URL
deriveIdentityKey(source) ==
  IF IsUrl(source) THEN Origin(source) \o Pathname(source) ELSE source

Collections == {"docs", "notes"}
Contents == {"text A", "text B"}

\* the items handed to the ingestion service one after the other
InitIngest ==
  /\ now = 0
  /\ tasks = <<>>
  /\ chunks = [c \in Chunks |->
       [enrichment_status |-> "none", tier3_meta |-> EmptyMeta,
        tier3_error |-> NoError]]
  /\ docs = [d \in Documents |-> [summary_medium |-> "null"]]
  /\ entities = {}
  /\ claiming = [w \in Workers |-> NoClaim]
  /\ held = [w \in Workers |-> {}]
  /\ nclaims = 0
  /\ enq = NoEnqueue
  /\ cleared = NoClear
  /\ flt = NoFilter
  /\ fetch = NoFetch
  /\ urlBatch = NoBatch
  /\ embedCall = NoEmbed
  /\ ingest = [pc |-> "ready", documents |-> {}, ingests |-> 0]
  /\ ClientsIdle

\* the document with this collection and identity key, if there is one
Conflicting(collection, key) ==
  {d \in ingest.documents : d.collection = collection /\ d.identity_key = key}

\* one item is ingested: the document is upserted by (collection,
\* identity_key); on conflict updated_at and last_seen are refreshed and,
\* with overwrite, the content replaced.  ingested keeps the sources that
\* arrived at the document
IngestItem(collection, source, content, overwrite) ==
  /\ ingest.pc = "ready"
  /\ ingest.ingests < MaxIngests
  /\ LET key == deriveIdentityKey(source)
         at == ingest.ingests + 1
         old == Conflicting(collection, key)
         fresh == [id |-> at, collection |-> collection, identity_key |-> key,
                   source |-> source, content |-> content,
                   created_at |-> at, updated_at |-> at, last_seen |-> at,
                   ingested |-> {source}]
     IN ingest' =
          [ingest EXCEPT
             !.ingests = at,
             !.documents =
               IF old = {} THEN @ \cup {fresh}
               ELSE (@ \ old) \cup
                    {[d EXCEPT !.updated_at = at, !.last_seen = at,
                               !.ingested = @ \cup {source},
                               !.source = IF overwrite THEN source ELSE @,
                               !.content = IF overwrite THEN content ELSE @] :
                       d \in old}]
  /\ UNCHANGED <<now, tasks, chunks, docs, entities, claiming, held, nclaims,
                 enq, cleared, flt, fetch, urlBatch, embedCall,
                 ingestReq, qry, textFilter, flush, urlCheck>>

NextIngest ==
  \E collection \in Collections, source \in Sources, content \in Contents,
     overwrite \in BOOLEAN :
    IngestItem(collection, source, content, overwrite)

SpecIngest == InitIngest /\ [][NextIngest]_vars

\* a source without its query string and fragment
RECURSIVE WithoutQueryAndFragment(_)
WithoutQueryAndFragment(source) ==
  IF source = <<>> THEN <<>>
  ELSE LET front == WithoutQueryAndFragment(SubSeq(source, 1, Len(source) - 1))
           last == source[Len(source)]
       IN IF last \in QUERIES \cup FRAGMENTS THEN front ELSE Append(front, last)

\* C30: no two documents of a collection have the same identity_key; the
\* key of a URL source is that of the source without query string and
\* fragment and names its origin and path, the key of any other source is
\* the source itself; so URL sources of one collection that differ only in
\* query or fragment have arrived at the same document.
C30_IdentityKeyUnique ==
  ingest.pc = "ready" =>
    /\ \A d, e \in ingest.documents :
         (d.collection = e.collection /\ d.identity_key = e.identity_key)
           => d = e
    /\ \A d \in ingest.documents : \A s \in d.ingested :
         IF IsUrl(s)
           THEN /\ d.identity_key =
                     deriveIdentityKey(WithoutQueryAndFragment(s))
                /\ \A i \in 1..Len(d.identity_key) :
                     d.identity_key[i] \notin QUERIES \cup FRAGMENTS
           ELSE d.identity_key = s
    /\ \A d, e \in ingest.documents :
         \A s \in d.ingested, t \in e.ingested :
           (/\ d.collection = e.collection
            /\ IsUrl(s)
            /\ WithoutQueryAndFragment(s) = WithoutQueryAndFragment(t))
             => d = e

\* two URL sources that differ in query string and fragment arrived at one
\* document
C30_Witness ==
  \E d \in ingest.documents :
    /\ <<"https:", "//", "example.com", "/page", "#top">> \in d.ingested
    /\ <<"https:", "//", "example.com", "/page", "?v=1">> \in d.ingested
    /\ d.identity_key = <<"https:", "//", "example.com", "/page">>

\* ===================================================================
\* further claims about the task queue and its worker protocol

\* C32: a submitted result leaves none of the keys summary, summary_short,
\* summary_medium, summary_long and _error in the tier3 metadata stored on
\* the chunk, keeps the other keys of the result, and writes the summary
\* of the result to the parent document row.
C32_SummariesPromoted ==
  [][\A w \in Workers, t \in TaskIds :
       submitTaskResult(w, t, TRUE, 0) =>
         LET c == tasks[t].chunk
         IN /\ (DOMAIN chunks'[c].tier3_meta) \cap STRIPPED_KEYS = {}
            /\ chunks'[c].tier3_error = NoError
            /\ \A k \in (DOMAIN ResultTier3) \ STRIPPED_KEYS :
                 /\ k \in DOMAIN chunks'[c].tier3_meta
                 /\ chunks'[c].tier3_meta[k] = ResultTier3[k]
            /\ docs'[DocOf(c)].summary_medium = ResultTier3.summary_medium]_vars

\* a result submitted on the second attempt, after a failure report had
\* written _error to the chunk
C32_Witness ==
  \E t \in TaskIds :
    LET c == tasks[t].chunk
    IN /\ tasks[t].status = "completed"
       /\ tasks[t].attempt = 2
       /\ chunks[c].enrichment_status = "enriched"
       /\ chunks[c].tier3_error = NoError
       /\ "summary_medium" \notin DOMAIN chunks[c].tier3_meta
       /\ chunks[c].tier3_meta.otherField = "keep this"
       /\ docs[DocOf(c)].summary_medium = "S"

\* C38: only the worker that holds the lease of a task finishes it: a
\* result or a failure report from a worker whose lease expired, and whose
\* task was recovered and claimed again by another worker, changes neither
\* the task nor the chunk.
C38_OnlyLeaseHolderFinishes ==
  [][\A w \in Workers, t \in TaskIds :
       ( /\ \/ submitTaskResult(w, t, TRUE, 0)
            \/ \E msg \in ErrorMessages : failTask(w, t, msg)
         /\ tasks[t].status = "processing"
         /\ tasks[t].worker_id = Other(w) ) =>
         UNCHANGED <<tasks, chunks>>]_vars

\* C39: for every task 1 <= attempt <= max_attempts at all times; a
\* failure report on a task that is not dead either uses up one attempt or
\* makes the task dead, no step gives an attempt back, so a task is
\* reported failed at most max_attempts times before it is dead; a dead
\* task is never claimed again.
C39_AttemptsBounded ==
  [][/\ \A t \in DOMAIN tasks' :
          /\ 1 <= tasks'[t].attempt
          /\ tasks'[t].attempt <= tasks'[t].max_attempts
     /\ \A t \in TaskIds :
          /\ tasks'[t].attempt >= tasks[t].attempt
          /\ tasks'[t].max_attempts = tasks[t].max_attempts
          /\ tasks[t].status = "dead" =>
               tasks'[t].status \notin {"pending", "processing"}
     /\ \A w \in Workers, t \in TaskIds, msg \in ErrorMessages :
          (failTask(w, t, msg) /\ tasks[t].status # "dead") =>
             \/ tasks'[t].attempt = tasks[t].attempt + 1
             \/ tasks'[t].status = "dead"]_vars

\* a task that used up its attempts and is dead, while another is claimed
C39_Witness ==
  \E t \in TaskIds :
    /\ tasks[t].status = "dead"
    /\ tasks[t].attempt = DEFAULT_MAX_ATTEMPTS
    /\ tasks[t].attempt = tasks[t].max_attempts
    /\ chunks[tasks[t].chunk].tier3_error.attempt = DEFAULT_MAX_ATTEMPTS

\* C40: whenever a chunk has a task in status pending, the chunk's
\* enrichment_status is pending.
C40_PendingTaskPendingChunk ==
  \A t \in TaskIds :
    tasks[t].status = "pending" =>
      chunks[tasks[t].chunk].enrichment_status = "pending"

\* ------------------------------------------------- enrichment status
\* SELECT c.enrichment_status ... WHERE d.base_id = $1: the chunk rows of
\* the document
StatusRows(rows, baseId) == {c \in Chunks : DocOf(c) = baseId}

\* statusCounts[status]
StatusCount(rows, baseId, status) ==
  Cardinality({c \in StatusRows(rows, baseId) :
                 rows[c].enrichment_status = status})

OverallStatusAnyEnriched(rows, baseId) ==
  IF StatusCount(rows, baseId, "enriched") > 0 THEN "enriched" ELSE "mixed"

\* the overall status: the status every chunk has, else failed when a
\* chunk failed, else mixed
OverallStatus(rows, baseId) ==
  LET total == Cardinality(StatusRows(rows, baseId))
  IN IF StatusCount(rows, baseId, "enriched") = total THEN "enriched"
     ELSE IF StatusCount(rows, baseId, "pending") = total THEN "pending"
     ELSE IF StatusCount(rows, baseId, "processing") = total THEN "processing"
     ELSE IF StatusCount(rows, baseId, "none") = total THEN "none"
     ELSE IF StatusCount(rows, baseId, "failed") > 0 THEN "failed"
     ELSE "mixed"

\* the reply of the status endpoint for a document that has chunks
getEnrichmentStatus(rows, baseId) ==
  [baseId |-> baseId,
   status |-> OverallStatus(rows, baseId),
   chunks |-> [total |-> Cardinality(StatusRows(rows, baseId)),
               enriched |-> StatusCount(rows, baseId, "enriched"),
               pending |-> StatusCount(rows, baseId, "pending"),
               processing |-> StatusCount(rows, baseId, "processing"),
               failed |-> StatusCount(rows, baseId, "failed"),
               none |-> StatusCount(rows, baseId, "none")]]

\* C33: the status endpoint reports enriched for a document only when
\* every chunk of it is enriched, and it reports enriched once the result
\* for the last chunk of the document that was not yet enriched has been
\* submitted.
C33_EnrichedWhenAllChunksEnriched ==
  [][/\ \A d \in Documents :
          getEnrichmentStatus(chunks', d).status = "enriched" =>
            \A c \in StatusRows(chunks', d) :
              chunks'[c].enrichment_status = "enriched"
     /\ \A w \in Workers, t \in TaskIds :
          ( /\ submitTaskResult(w, t, TRUE, 0)
            /\ \A c \in StatusRows(chunks, DocOf(tasks[t].chunk)) \ {tasks[t].chunk} :
                 chunks[c].enrichment_status = "enriched" ) =>
            LET reply == getEnrichmentStatus(chunks', DocOf(tasks[t].chunk))
            IN /\ reply.status = "enriched"
               /\ reply.chunks.enriched = reply.chunks.total]_vars

\* every chunk of the document was enqueued, claimed and submitted
C33_Witness ==
  /\ \A c \in Chunks :
       \E t \in TasksOf(c) : tasks[t].status = "completed"
  /\ getEnrichmentStatus(chunks, "d1").status = "enriched"
  /\ getEnrichmentStatus(chunks, "d1").chunks.total = Cardinality(Chunks)

\* ===================================================================
\* the command-line client and the request handlers of the API, each on
\* its own while the task queue and the other components are at rest
ServerIdle ==
  /\ now = 0
  /\ tasks = <<>>
  /\ chunks = [c \in Chunks |->
       [enrichment_status |-> "none", tier3_meta |-> EmptyMeta,
        tier3_error |-> NoError]]
  /\ docs = [d \in Documents |-> [summary_medium |-> "null"]]
  /\ entities = {}
  /\ claiming = [w \in Workers |-> NoClaim]
  /\ held = [w \in Workers |-> {}]
  /\ nclaims = 0
  /\ enq = NoEnqueue
  /\ cleared = NoClear
  /\ flt = NoFilter
  /\ fetch = NoFetch
  /\ urlBatch = NoBatch
  /\ embedCall = NoEmbed
  /\ ingest = NoIngest

\* ------------------------------------------------------------ checkUrls
MaxUrls == 3

CHECK_CONCURRENCY == 5

\* a slot of new Array(urls.length) that was not assigned
HOLE == [url |-> "empty", reachable |-> FALSE, meaningful |-> FALSE]
NoItem == [index |-> NULL, url |-> "null"]

CheckedUrls == {"https://example.com/slow", "https://example.com/fast"}
UrlLists == UNION {[1..n -> CheckedUrls] : n \in 0..MaxUrls}
CheckConcurrencies == {1, 2, CHECK_CONCURRENCY}

\* what checkUrl resolves with: unreachable, reachable with almost no
\* text, or the verdict of the model
CheckResults(url) ==
  {[url |-> url, reachable |-> FALSE, meaningful |-> FALSE],
   [url |-> url, reachable |-> TRUE, meaningful |-> FALSE],
   [url |-> url, reachable |-> TRUE, meaningful |-> TRUE]}

InitCheck ==
  /\ ServerIdle
  /\ ingestReq = NoRequest
  /\ qry = NoQuery
  /\ textFilter = NoTextFilter
  /\ flush = NoFlush
  /\ urlCheck = NoCheck

\* worker(): while (queue.length > 0) { next = queue.shift(); ... await
\* checkUrl(next.url) }: the worker ends on an empty queue, else it holds
\* the item whose check it awaits
ShiftNext(c, w) ==
  IF Len(c.queue) > 0
    THEN [c EXCEPT !.queue = Tail(@), !.workers[w] = Head(c.queue)]
    ELSE [c EXCEPT !.workers[w] = NoItem]

RECURSIVE StartCheckWorkers(_, _)
StartCheckWorkers(c, k) ==
  IF k = 0 THEN c ELSE ShiftNext(StartCheckWorkers(c, k - 1), k)

ResultSlotAppended(results, next) ==
  1 + Cardinality({i \in DOMAIN results : results[i] # HOLE})

\* results[next.index] = result: the position of the URL in the input
ResultSlot(results, next) == next.index + 1

\* checkUrls(urls, ..., concurrency) up to its await: the queue pairs each
\* URL with its index and Math.min(concurrency, urls.length) workers
\* start.  order lists the indexes in the order their checks finished
checkUrls(urls, concurrency) ==
  /\ urlCheck.pc = "idle"
  /\ LET n == Min(concurrency, Len(urls))
     IN urlCheck' =
          StartCheckWorkers(
            [pc |-> "running", urls |-> urls,
             results |-> [i \in 1..Len(urls) |-> HOLE],
             queue |-> [i \in 1..Len(urls) |-> [index |-> i - 1, url |-> urls[i]]],
             workers |-> [w \in 1..n |-> NoItem],
             completed |-> 0, order |-> <<>>], n)
  /\ UNCHANGED <<now, tasks, chunks, docs, entities, claiming, held, nclaims,
                 enq, cleared, flt, fetch, urlBatch, embedCall, ingest,
                 ingestReq, qry, textFilter, flush>>

\* the check of worker w resolves: the result is stored and the worker
\* goes on with the queue
CheckSettles(w, result) ==
  /\ urlCheck.pc = "running"
  /\ w \in DOMAIN urlCheck.workers
  /\ urlCheck.workers[w] # NoItem
  /\ LET next == urlCheck.workers[w]
     IN /\ result \in CheckResults(next.url)
        /\ urlCheck' =
             ShiftNext(
               [urlCheck EXCEPT
                  !.results[ResultSlot(urlCheck.results, next)] = result,
                  !.completed = @ + 1,
                  !.order = Append(@, next.index)], w)
  /\ UNCHANGED <<now, tasks, chunks, docs, entities, claiming, held, nclaims,
                 enq, cleared, flt, fetch, urlBatch, embedCall, ingest,
                 ingestReq, qry, textFilter, flush>>

\* the check of worker w rejects (askOpenAiMeaningful rethrows what is not
\* a timeout): the worker and with it Promise.all reject, checkUrls
\* returns nothing
CheckThrows(w) ==
  /\ urlCheck.pc = "running"
  /\ w \in DOMAIN urlCheck.workers
  /\ urlCheck.workers[w] # NoItem
  /\ urlCheck' = [urlCheck EXCEPT !.pc = "rejected"]
  /\ UNCHANGED <<now, tasks, chunks, docs, entities, claiming, held, nclaims,
                 enq, cleared, flt, fetch, urlBatch, embedCall, ingest,
                 ingestReq, qry, textFilter, flush>>

\* await Promise.all(workers) resolves: return results
CheckReturns ==
  /\ urlCheck.pc = "running"
  /\ \A w \in DOMAIN urlCheck.workers : urlCheck.workers[w] = NoItem
  /\ urlCheck' = [urlCheck EXCEPT !.pc = "returned"]
  /\ UNCHANGED <<now, tasks, chunks, docs, entities, claiming, held, nclaims,
                 enq, cleared, flt, fetch, urlBatch, embedCall, ingest,
                 ingestReq, qry, textFilter, flush>>

NextCheck ==
  \/ \E urls \in UrlLists, concurrency \in CheckConcurrencies :
       checkUrls(urls, concurrency)
  \/ \E w \in 1..MaxUrls :
       \E result \in UNION {CheckResults(u) : u \in CheckedUrls} :
         CheckSettles(w, result)
  \/ \E w \in 1..MaxUrls : CheckThrows(w)
  \/ CheckReturns

SpecCheck == InitCheck /\ [][NextCheck]_vars

MaxItems == 4

PAYLOAD_TOO_LARGE == 413

\* what ingest() resolves or rejects with: a reply, an Error whose message
\* names the status of the API, or an Error of the transport
Delivered == [ok |-> TRUE, message |-> <<>>]
IngestFailed(status) == [ok |-> FALSE, message |-> <<"Ingest failed:", status>>]
TransportError == [ok |-> FALSE, message |-> <<"fetch failed">>]
IngestOutcomes ==
  {Delivered, IngestFailed(PAYLOAD_TOO_LARGE), IngestFailed(500), TransportError}

\* /^Ingest failed:\s*(\d+)\b/.exec(error.message)
parseIngestErrorStatus(error) ==
  IF Len(error.message) = 2 /\ error.message[1] = "Ingest failed:"
    THEN error.message[2] ELSE NULL

\* the batches cmdIngest hands to flushBatch: items 1..n in file order
ItemBatches == {[i \in 1..n |-> i] : n \in 0..MaxItems}

InitFlush ==
  /\ ServerIdle
  /\ ingestReq = NoRequest
  /\ qry = NoQuery
  /\ textFilter = NoTextFilter
  /\ flush = NoFlush
  /\ urlCheck = NoCheck

\* Math.ceil(batchItems.length / 2)
Mid(batchItems) == (Len(batchItems) + 1) \div 2

HalvesSkippingMiddle(batchItems) ==
  <<SubSeq(batchItems, 1, Mid(batchItems)),
    SubSeq(batchItems, Mid(batchItems) + 2, Len(batchItems))>>

\* batchItems.slice(0, mid), batchItems.slice(mid)
Halves(batchItems) ==
  <<SubSeq(batchItems, 1, Mid(batchItems)),
    SubSeq(batchItems, Mid(batchItems) + 1, Len(batchItems))>>

\* for (const item of batchItems) flushBatch(..., [item])
Singles(batchItems) == [i \in 1..Len(batchItems) |-> <<batchItems[i]>>]

\* cmdIngest calls flushBatch(batchItems).  pending lists the calls of
\* flushBatch that are still to run, in the order in which the awaits run
\* them; log lists the requests sent with the outcome of each
FlushStart(batchItems) ==
  /\ flush.pc = "idle"
  /\ flush' = [pc |-> "running", items |-> batchItems,
               pending |-> <<batchItems>>, log |-> <<>>, skipped |-> <<>>]
  /\ UNCHANGED <<now, tasks, chunks, docs, entities, claiming, held, nclaims,
                 enq, cleared, flt, fetch, urlBatch, embedCall, ingest,
                 ingestReq, qry, textFilter, urlCheck>>

\* one call of flushBatch runs up to its recursive calls: an empty batch
\* returns at once; else the batch is sent and, when ingest() rejects, a
\* 413 on several items splits the batch in two, another failure of
\* several items retries each item alone, a failure of one item is logged
FlushCall(outcome) ==
  /\ flush.pc = "running"
  /\ flush.pending # <<>>
  /\ LET batchItems == Head(flush.pending)
         rest == Tail(flush.pending)
         status == parseIngestErrorStatus(outcome)
         sent == Append(flush.log, [items |-> batchItems, outcome |-> outcome])
     IN flush' =
          IF Len(batchItems) = 0
            THEN [flush EXCEPT !.pending = rest]
          ELSE IF outcome.ok
            THEN [flush EXCEPT !.pending = rest, !.log = sent]
          ELSE IF status = PAYLOAD_TOO_LARGE /\ Len(batchItems) > 1
            THEN [flush EXCEPT !.pending = Halves(batchItems) \o rest,
                               !.log = sent]
          ELSE IF Len(batchItems) > 1
            THEN [flush EXCEPT !.pending = Singles(batchItems) \o rest,
                               !.log = sent]
          ELSE [flush EXCEPT !.pending = rest, !.log = sent,
                             !.skipped = Append(@, batchItems[1])]
  /\ UNCHANGED <<now, tasks, chunks, docs, entities, claiming, held, nclaims,
                 enq, cleared, flt, fetch, urlBatch, embedCall, ingest,
                 ingestReq, qry, textFilter, urlCheck>>

\* the outermost flushBatch returns
FlushReturns ==
  /\ flush.pc = "running"
  /\ flush.pending = <<>>
  /\ flush' = [flush EXCEPT !.pc = "done"]
  /\ UNCHANGED <<now, tasks, chunks, docs, entities, claiming, held, nclaims,
                 enq, cleared, flt, fetch, urlBatch, embedCall, ingest,
                 ingestReq, qry, textFilter, urlCheck>>

NextFlush ==
  \/ \E batchItems \in ItemBatches : FlushStart(batchItems)
  \/ \E outcome \in IngestOutcomes : FlushCall(outcome)
  \/ FlushReturns

SpecFlush == InitFlush /\ [][NextFlush]_vars

\* the items of the requests that succeeded or held one item, in the
\* order in which the requests were sent
RECURSIVE Settled(_)
Settled(log) ==
  IF log = <<>> THEN <<>>
  ELSE LET front == Settled(SubSeq(log, 1, Len(log) - 1))
           last == log[Len(log)]
       IN IF last.outcome.ok \/ Len(last.items) = 1
            THEN front \o last.items ELSE front

\* C36: a 413 on a batch of more than one item makes the client send the
\* two halves of the batch next, first half first, and when the flush
\* ends every item of the batch was sent, in its original relative order,
\* in a request that succeeded or held that item alone.
C36_SplitOnPayloadTooLarge ==
  [][/\ \A outcome \in IngestOutcomes :
          ( /\ FlushCall(outcome)
            /\ parseIngestErrorStatus(outcome) = PAYLOAD_TOO_LARGE
            /\ Len(Head(flush.pending)) > 1 ) =>
            LET batchItems == Head(flush.pending)
            IN /\ Len(flush'.pending) = Len(flush.pending) + 1
               /\ flush'.pending[1] \o flush'.pending[2] = batchItems
               /\ flush'.pending[1] # <<>>
               /\ flush'.pending[2] # <<>>
               /\ Len(flush'.pending[1]) - Len(flush'.pending[2]) \in {0, 1}
     /\ flush'.pc = "done" => Settled(flush'.log) = flush'.items]_vars

\* a batch of three or more items answered 413, a half of it answered 413
\* again, and the flush ended
C36_Witness ==
  /\ flush.pc = "done"
  /\ Len(flush.items) >= 3
  /\ \E i, j \in 1..Len(flush.log) :
       /\ i < j
       /\ flush.log[i].items = flush.items
       /\ flush.log[i].outcome = IngestFailed(PAYLOAD_TOO_LARGE)
       /\ Len(flush.log[j].items) = 2
       /\ flush.log[j].outcome = IngestFailed(PAYLOAD_TOO_LARGE)
  /\ flush.skipped = <<>>

\* --------------------------------------------- text filter and fallback
\* what a run of the statements of a handler ends with: their rows, or an
\* error thrown by the driver.  A message is a list of phrases
Succeeds == [thrown |-> FALSE, object |-> TRUE, code |-> UNDEFINED, message |-> <<>>]
DbError(code, message) ==
  [thrown |-> TRUE, object |-> TRUE, code |-> code, message |-> message]

\* the tsquery compiler rejects the filter text
TsQuerySyntaxError == DbError("42601", <<"syntax error in tsquery">>)
\* the same rejection as an error that carries no code
TsQuerySyntaxNoCode == DbError(UNDEFINED, <<"Syntax error in tsquery">>)
\* another statement error of class 42601
SyntaxErrorElsewhere == DbError("42601", <<"syntax error at or near">>)
\* a server without the function: websearch_to_tsquery is not defined
UndefinedFunction ==
  DbError("42883", <<"function", "websearch_to_tsquery", "does not exist">>)
ConnectionFailure == DbError("08006", <<"connection failure">>)
\* a rejection with a value that is not an object
ThrownString == [thrown |-> TRUE, object |-> FALSE, code |-> UNDEFINED, message |-> <<>>]

\* errors that name the tsquery of the statement arise only when the
\* statement has one, that is in the first run of a call with a filter
TsQueryErrors == {TsQuerySyntaxError, TsQuerySyntaxNoCode, UndefinedFunction}
OtherErrors == {SyntaxErrorElsewhere, ConnectionFailure, ThrownString}

TextFilters == {UNDEFINED, "", "invoice", "\"unterminated"}
FilterGiven(filter) == filter # UNDEFINED /\ filter # ""

FirstRuns(filter) ==
  {Succeeds} \cup OtherErrors \cup
  (IF FilterGiven(filter) THEN TsQueryErrors ELSE {})
SecondRuns == {Succeeds} \cup OtherErrors

\* message.toLowerCase()
LowerPhrase(phrase) ==
  IF phrase = "Syntax error in tsquery" THEN "syntax error in tsquery"
  ELSE phrase

Includes(message, phrase) ==
  \E i \in 1..Len(message) : LowerPhrase(message[i]) = phrase

\* code === "42601" || message.includes("syntax error in tsquery") ||
\* message.includes("websearch_to_tsquery")
isInvalidTsQueryError(error) ==
  /\ error.object
  /\ \/ error.code = "42601"
     \/ Includes(error.message, "syntax error in tsquery")
     \/ Includes(error.message, "websearch_to_tsquery")

FilterReply(ok, via, error, runs) ==
  [ok |-> ok, via |-> via, error |-> error, runs |-> runs]

RunWithoutFallback(filter, first, second) ==
  IF ~first.thrown THEN FilterReply(TRUE, "tsquery", Succeeds, <<TRUE>>)
  ELSE FilterReply(FALSE, "none", first, <<TRUE>>)

\* try { runQuery(true) } catch (error) { if (!filter ||
\* !isInvalidTsQueryError(error)) throw error; runQuery(false) }: runs
\* lists enableTsQuery of the runs made
RunWithFallback(filter, first, second) ==
  IF ~first.thrown THEN FilterReply(TRUE, "tsquery", Succeeds, <<TRUE>>)
  ELSE IF ~FilterGiven(filter) \/ ~isInvalidTsQueryError(first)
    THEN FilterReply(FALSE, "none", first, <<TRUE>>)
  ELSE IF ~second.thrown
    THEN FilterReply(TRUE, "ilike", Succeeds, <<TRUE, FALSE>>)
  ELSE FilterReply(FALSE, "none", second, <<TRUE, FALSE>>)

InitTextFilter ==
  /\ ServerIdle
  /\ ingestReq = NoRequest
  /\ qry = NoQuery
  /\ textFilter = NoTextFilter
  /\ flush = NoFlush
  /\ urlCheck = NoCheck

\* one call of a handler that takes a text filter: first and second are
\* what its run with the tsquery and its run with ILIKE only end with
FilteredCall(op, filter, first, second) ==
  /\ first \in FirstRuns(filter)
  /\ second \in SecondRuns
  /\ textFilter' = [pc |-> "replied", op |-> op, filter |-> filter,
                    first |-> first,
                    reply |-> RunWithFallback(filter, first, second)]
  /\ UNCHANGED <<now, tasks, chunks, docs, entities, claiming, held, nclaims,
                 enq, cleared, flt, fetch, urlBatch, embedCall, ingest,
                 ingestReq, qry, flush, urlCheck>>

\* GET /enrichment/stats
StatsCall(filter, first, second) == FilteredCall("stats", filter, first, second)

\* POST /enrichment/enqueue: the page query runs with useTsQuery until it
\* is rejected, then from the first page with ILIKE only
EnqueueCall(filter, first, second) == FilteredCall("enqueue", filter, first, second)

\* POST /enrichment/clear
ClearCall(filter, first, second) == FilteredCall("clear", filter, first, second)

AllRuns == {Succeeds} \cup OtherErrors \cup TsQueryErrors

NextTextFilter ==
  \/ \E filter \in TextFilters, first \in AllRuns, second \in AllRuns :
       StatsCall(filter, first, second)
  \/ \E filter \in TextFilters, first \in AllRuns, second \in AllRuns :
       EnqueueCall(filter, first, second)
  \/ \E filter \in TextFilters, first \in AllRuns, second \in AllRuns :
       ClearCall(filter, first, second)

SpecTextFilter == InitTextFilter /\ [][NextTextFilter]_vars

\* the database rejects the filter text as invalid tsquery syntax
RejectsFilterText(error) ==
  /\ error.thrown /\ error.object
  /\ \E i \in 1..Len(error.message) :
       error.message[i] \in {"syntax error in tsquery", "Syntax error in tsquery"}

\* the call made one run and threw its error
Propagated(call) ==
  /\ ~call.reply.ok
  /\ call.reply.runs = <<TRUE>>
  /\ call.reply.error = call.first

\* the call made a second run, with ILIKE only, and replied with what
\* that run ended with
Retried(call) ==
  /\ call.reply.runs = <<TRUE, FALSE>>
  /\ call.reply.ok => call.reply.via = "ilike"
  /\ ~call.reply.ok => call.reply.error \in SecondRuns \ {Succeeds}

\* C35 as stated: a call whose filter text the database rejects as invalid
\* tsquery syntax is retried with the ILIKE-only filter and returns the
\* result of the retry; every other database error is propagated without
\* retry.
C35_RetryOnlyOnTsQuerySyntax ==
  textFilter.pc = "replied" =>
    /\ RejectsFilterText(textFilter.first) => Retried(textFilter)
    /\ (textFilter.first.thrown /\ ~RejectsFilterText(textFilter.first)) =>
         Propagated(textFilter)

\* C35 amended: a call with a filter is retried once with the ILIKE-only
\* filter, and returns what the retry ends with, when the error of its
\* first run is a rejection of the filter text as tsquery syntax, carries
\* code 42601, or names websearch_to_tsquery in its message; every other
\* error, every error of a call without filter and every error of the
\* retry is propagated.
C35_RetryOnTsQueryClassifiedErrors ==
  textFilter.pc = "replied" =>
    LET first == textFilter.first
        classified ==
          /\ first.object
          /\ \/ first.code = "42601"
             \/ RejectsFilterText(first)
             \/ \E i \in 1..Len(first.message) :
                  first.message[i] = "websearch_to_tsquery"
    IN /\ ~first.thrown =>
            /\ textFilter.reply.ok
            /\ textFilter.reply.runs = <<TRUE>>
       /\ (first.thrown /\ FilterGiven(textFilter.filter) /\ classified) =>
            Retried(textFilter)
       /\ (first.thrown /\ ~(FilterGiven(textFilter.filter) /\ classified)) =>
            Propagated(textFilter)
       /\ Len(textFilter.reply.runs) <= 2

\* a clear call whose filter was rejected as tsquery syntax and that
\* returned the result of its ILIKE-only run
C35_Witness ==
  /\ textFilter.pc = "replied"
  /\ textFilter.op = "clear"
  /\ textFilter.filter = "\"unterminated"
  /\ textFilter.first = TsQuerySyntaxError
  /\ textFilter.reply.ok
  /\ textFilter.reply.via = "ilike"
  /\ textFilter.reply.runs = <<TRUE, FALSE>>

\* ---------------------------------------------------------- POST /query
MaxHits == 3

TOPK_MINIMUM == 1
TOPK_MAXIMUM == 100
DEFAULT_TOP_K == 8

\* JSON values of the request body
Absent == [type |-> "undefined", int |-> 0, chars |-> <<>>]
JsonInteger(n) == [type |-> "integer", int |-> n, chars |-> <<>>]
JsonString(chars) == [type |-> "string", int |-> 0, chars |-> chars]

QueryArgs ==
  {Absent, JsonString(<<>>), JsonString(<<" ">>), JsonString(<<"h", "i">>)}
TopKArgs ==
  {Absent, JsonString(<<"8">>)} \cup
  {JsonInteger(n) : n \in {-1, 0, TOPK_MINIMUM, 2, DEFAULT_TOP_K,
                          TOPK_MAXIMUM, TOPK_MAXIMUM + 1}}
QueryBodies == [query : QueryArgs, topK : TopKArgs]

\* the number of rows that match the query
HitCounts == (0..MaxHits) \cup {DEFAULT_TOP_K + 1, TOPK_MAXIMUM + 1}

\* query: { type: "string", minLength: 1, pattern: "\\S" }, required
ValidQuery(value) ==
  /\ value.type = "string"
  /\ Len(value.chars) >= 1
  /\ \E i \in 1..Len(value.chars) : value.chars[i] # " "

\* topK: { type: "integer", minimum: 1, maximum: 100 }, not required
ValidTopK(value) ==
  \/ value.type = "undefined"
  \/ /\ value.type = "integer"
     /\ value.int >= TOPK_MINIMUM
     /\ value.int <= TOPK_MAXIMUM

\* the body passes querySchema
querySchema(body) == ValidQuery(body.query) /\ ValidTopK(body.topK)

\* the topK the query service works with: the default when the request
\* has none, clamped to the range
EffectiveTopK(value) ==
  LET asked == IF value.type = "undefined" THEN DEFAULT_TOP_K ELSE value.int
  IN IF asked < TOPK_MINIMUM THEN TOPK_MINIMUM
     ELSE IF asked > TOPK_MAXIMUM THEN TOPK_MAXIMUM
     ELSE asked

InitQuery ==
  /\ ServerIdle
  /\ ingestReq = NoRequest
  /\ qry = NoQuery
  /\ textFilter = NoTextFilter
  /\ flush = NoFlush
  /\ urlCheck = NoCheck

\* POST /query: a body that fails the schema is refused before the query
\* service runs; else the service returns the best rows, at most topK
PostQuery(body, hits) ==
  /\ qry' =
       IF querySchema(body)
         THEN LET limit == EffectiveTopK(body.topK)
              IN [pc |-> "replied", body |-> body, hits |-> hits,
                  served |-> TRUE, limit |-> limit,
                  results |-> [i \in 1..Min(limit, hits) |-> i]]
         ELSE [pc |-> "replied", body |-> body, hits |-> hits,
               served |-> FALSE, limit |-> 0, results |-> <<>>]
  /\ UNCHANGED <<now, tasks, chunks, docs, entities, claiming, held, nclaims,
                 enq, cleared, flt, fetch, urlBatch, embedCall, ingest,
                 ingestReq, textFilter, flush, urlCheck>>

NextQuery == \E body \in QueryBodies, hits \in HitCounts : PostQuery(body, hits)

SpecQuery == InitQuery /\ [][NextQuery]_vars

\* C34: every query with a query text and a whole-number topK, or none,
\* is served with topK clamped to 1..100, default 8: a topK below 1 or
\* above 100 is served with the nearest bound, and no response holds more
\* results than the effective topK.
C34_TopKClamped ==
  ( /\ qry.pc = "replied"
    /\ ValidQuery(qry.body.query)
    /\ qry.body.topK.type \in {"undefined", "integer"} ) =>
    /\ qry.served
    /\ qry.limit = EffectiveTopK(qry.body.topK)
    /\ Len(qry.results) <= qry.limit
    /\ Len(qry.results) = Min(qry.limit, qry.hits)

\* --------------------------------------------------------- POST /ingest
MaxRequestItems == 2

\* the items of a request: text with source, text with a URL to derive the
\* source from, a URL only, and items that lack the text or the source
ItemKinds == {"text", "textWithUrl", "urlOnly", "noText", "noSource"}

\* the item at position i of a request; its URL, if it has one, is i
RequestItem(kind, i) ==
  [kind |-> kind,
   hasText |-> kind \in {"text", "textWithUrl", "noSource"},
   hasSource |-> kind \in {"text", "noText"},
   url |-> IF kind \in {"textWithUrl", "urlOnly"} THEN i ELSE NULL]

IngestRequests ==
  UNION {{[i \in 1..n |-> RequestItem(kinds[i], i)] : kinds \in [1..n -> ItemKinds]} :
           n \in 1..MaxRequestItems}

SettlementKinds == {"result", "error", "thrown"}

\* the entry fetchUrls leaves in errors[] for a URL whose fetch failed
FetchErrorOf(url, kind) ==
  IF kind = "error"
    THEN CHOOSE e \in Settlements(url) : e.kind = "error"
    ELSE [kind |-> "error", url |-> url, status |-> NULL, reason |-> "fetch_failed"]

\* step 1 for one item: the text to ingest, or the entry for errors[]
ResolveItem(item, i, fetched) ==
  IF item.url # NULL /\ ~item.hasText
    THEN IF fetched = "result"
           THEN [ok |-> TRUE, error |-> [item |-> i, url |-> item.url, reason |-> "none"]]
           ELSE [ok |-> FALSE,
                 error |-> [item |-> i, url |-> item.url,
                            reason |-> FetchErrorOf(item.url, fetched).reason]]
  ELSE IF ~item.hasText
    THEN [ok |-> FALSE, error |-> [item |-> i, url |-> NULL, reason |-> "missing_text"]]
  ELSE IF ~item.hasSource /\ item.url = NULL
    THEN [ok |-> FALSE, error |-> [item |-> i, url |-> NULL, reason |-> "missing_source"]]
  ELSE [ok |-> TRUE, error |-> [item |-> i, url |-> item.url, reason |-> "none"]]

\* the positions of the items that are ingested
IngestedUpToFirstError(items, fetched) ==
  {i \in 1..Len(items) :
     \A j \in 1..i : ResolveItem(items[j], j, fetched[j]).ok}

\* a failed item does not end the batch
Ingested(items, fetched) ==
  {i \in 1..Len(items) : ResolveItem(items[i], i, fetched[i]).ok}

InitIngestRequest ==
  /\ ServerIdle
  /\ ingestReq = NoRequest
  /\ qry = NoQuery
  /\ textFilter = NoTextFilter
  /\ flush = NoFlush
  /\ urlCheck = NoCheck

\* one ingest request: every item is resolved, the resolved items are
\* chunked (one chunk each here), embedded and upserted, the others are
\* reported in errors[]
ingestService(items, fetched) ==
  /\ ingestReq' =
       [pc |-> "replied", items |-> items, fetched |-> fetched,
        ok |-> TRUE,
        documents |-> Ingested(items, fetched),
        upserted |-> Cardinality(Ingested(items, fetched)),
        errors |-> {ResolveItem(items[i], i, fetched[i]).error :
                      i \in {j \in 1..Len(items) :
                               ~ResolveItem(items[j], j, fetched[j]).ok}}]
  /\ UNCHANGED <<now, tasks, chunks, docs, entities, claiming, held, nclaims,
                 enq, cleared, flt, fetch, urlBatch, embedCall, ingest,
                 qry, textFilter, flush, urlCheck>>

NextIngestRequest ==
  \E items \in IngestRequests :
    \E fetched \in [1..Len(items) -> SettlementKinds] :
      ingestService(items, fetched)

SpecIngestRequest == InitIngestRequest /\ [][NextIngestRequest]_vars

\* the item cannot be ingested: its fetch failed, or it lacks the text or
\* the source
FailedItem(item, fetched) ==
  \/ item.kind = "urlOnly" /\ fetched # "result"
  \/ item.kind \in {"noText", "noSource"}

====
